---- MODULE Spec2Model ----
(***************************************************************************)
(* Remote-state cache of the Jankee manager front end: the TanStack Query  *)
(* client configured in lib/queryClient, the query and mutation hooks of   *)
(* hooks/useSites, hooks/useClients (clients and activities), the axios    *)
(* response interceptor of services/api and the logout handlers.           *)
(*                                                                         *)
(* One action is one task of the browser event loop: a user event, a timer *)
(* or the arrival of an HTTP response, together with every handler that    *)
(* runs to completion in it.                                               *)
(***************************************************************************)
EXTENDS Integers, Sequences, FiniteSets, TLC

(***************************************************************************)
(* Bounds of the model.                                                    *)
(***************************************************************************)
MaxTime == 6
MaxCallers == 2
MaxMut == 2
MaxLoaderCalls == 4
MaxDay == 4           \* dates of the derived-value functions: 0..MaxDay
MaxCalls == 2         \* calls of the derived-value functions
MaxActivities == 3    \* activities in the list handed to a list function
MaxSites == 7         \* sites in the list handed to calculateOccupancy
MaxExp == 2           \* exp claims of the access tokens, in seconds: 1..MaxExp

Callers == 1..MaxCallers
Muts == 1..MaxMut

(***************************************************************************)
(* config/constants: QUERY_KEYS.  A key is a sequence of strings; the      *)
(* filters element of a list key is the `undefined' of a call without      *)
(* filters.  QUERY_KEYS has no SITE_ACTIVITIES, CLIENT_ACTIVITIES or       *)
(* DASHBOARD member.                                                       *)
(***************************************************************************)
SITES == <<"sites">>
SITE(id) == <<"sites", id>>
SITES_WITH_STATUS == <<"sites", "status">>
CLIENTS == <<"clients">>
CLIENT(id) == <<"clients", id>>
ACTIVITIES == <<"activities">>
ACTIVITY(id) == <<"activities", id>>

QueryKeyMembers == {"SITES", "SITE", "SITES_WITH_STATUS", "SITES_SEARCH",
                    "CLIENTS", "CLIENT", "CLIENTS_SEARCH",
                    "ACTIVITIES", "ACTIVITY", "ACTIVITIES_BY_SITE",
                    "ACTIVITIES_BY_CLIENT", "DASHBOARD_STATS"}

SitesListKey == SITES \o <<"undefined">>
ClientsListKey == CLIENTS \o <<"undefined">>
ClientSearchKey == CLIENTS \o <<"search", "ab">>
ActivitiesListKey == ACTIVITIES \o <<"undefined">>
\* useDashboardMetricsQuery: its queryKey is QUERY_KEYS.DASHBOARD, undefined.
DashboardKey == <<"undefined">>

Keys == {SitesListKey, SITE("s1"), SITE("s3"), SITES_WITH_STATUS,
         ClientsListKey, CLIENT("c1"), ClientSearchKey,
         ActivitiesListKey, ACTIVITY("a1"), DashboardKey}
NoKey == <<>>

EntityIds == {"s1", "s2", "s3", "c1", "a1", "a2"}
FamilyOf(id) == CASE id \in {"s1", "s2", "s3"} -> "sites"
                  [] id = "c1" -> "clients"
                  [] OTHER -> "activities"

(***************************************************************************)
(* Values held by the cache and the backend.                               *)
(***************************************************************************)
NoEnt == [id |-> "", location |-> "", updatedAt |-> 0]
NoData == [kind |-> "undefined", ent |-> NoEnt, items |-> {}]
Doc(e) == [kind |-> "doc", ent |-> e, items |-> {}]
List(S) == [kind |-> "list", ent |-> NoEnt, items |-> S]

\* Partial<Create...Request>: the fields a caller supplies.
Patches == {<<>>, [location |-> "L1"]}

\* { ...previous, ...data, updatedAt: new Date().toISOString() }
Merge(previous, data, at) ==
  [id |-> previous.id,
   location |-> IF "location" \in DOMAIN data THEN data.location
                ELSE previous.location,
   updatedAt |-> at]

(***************************************************************************)
(* HTTP error statuses of the backend.                                      *)
(***************************************************************************)
ReadErrors == {401, 404, 500}
WriteErrors == {401, 409, 500}

VARIABLES
  cache,        \* queryClient: key -> query state
  loaderCalls,  \* key -> queryFn invocations since the query was last idle
  sub,          \* caller (mounted useQuery) -> key it observes, or NoKey
  delivered,    \* caller -> result of the fetch it last waited for
  now,          \* wall clock, minutes
  server,       \* backend: entity id -> entity, NoEnt when it does not exist
  mut,          \* mutation slot -> state of one mutate() call
  stamp,        \* source of updatedAt timestamps
  tokens,       \* localStorage accessToken / refreshToken present
  storedUser,   \* localStorage STORAGE_KEYS.USER present (no code writes it)
  authState,    \* useAuthStore, persisted as 'auth-storage': the user
                \* profile is held and isAuthenticated is true
  path,         \* window.location: "app" or "login"
  reloadPending, \* window.location.href has been assigned
  input,        \* the values handed to a form handler or a utility
  issues,       \* formState.errors: the issues of the last validation
  output,       \* what the handler submitted, or the utility returned
  stage,        \* "editing", "invalid", "valid", "submitted", "computed"
  filters       \* useFilterStore: entry -> field -> value

vars == <<cache, loaderCalls, sub, delivered, now, server, mut, stamp,
          tokens, storedUser, authState, path, reloadPending,
          input, issues, output, stage, filters>>
formVars == <<input, issues, output, stage, filters>>
cacheVars == <<cache, loaderCalls, sub, delivered>>
authVars == <<tokens, storedUser, authState, path, reloadPending>>

(***************************************************************************)
(* Query options.  Times are in minutes.                                   *)
(***************************************************************************)
DefaultStaleTime == 5
RefetchOnMount == FALSE
RefetchOnWindowFocus == TRUE
ReadRetryLimit == 2
MutationRetry == 1

\* staleTime option of the hook that owns the key.
StaleTime(k) ==
  CASE k = SitesListKey -> 5
    [] k = SITE("s1") -> 5
    [] k = SITE("s3") -> 5
    [] k = SITES_WITH_STATUS -> 3
    [] k = ClientsListKey -> 5
    [] k = CLIENT("c1") -> 5
    [] k = ClientSearchKey -> 2
    [] k = ActivitiesListKey -> 3
    [] k = ACTIVITY("a1") -> 3
    [] k = DashboardKey -> 2
    [] OTHER -> DefaultStaleTime

RetryQueryAnyStatus(failureCount, status) == failureCount < 2

\* retry option of queries: (failureCount, error) => boolean.  The message of
\* an axios error carries the status code of the response.
RetryQuery(failureCount, status) ==
  IF status = 404 \/ status = 401 THEN FALSE
  ELSE failureCount < ReadRetryLimit

RetryMutationTwice(failureCount, status) == failureCount < 2

\* retry option of mutations: a number.
RetryMutation(failureCount, status) == failureCount < MutationRetry

(***************************************************************************)
(* Query state.                                                            *)
(***************************************************************************)
EmptyEntry ==
  [exists |-> FALSE, data |-> NoData, dataUpdatedAt |-> 0,
   isInvalidated |-> FALSE, status |-> "pending", fetchStatus |-> "idle",
   failureCount |-> 0, failureReason |-> 0, waiters |-> {},
   revertStatus |-> "pending", revertFailures |-> 0]

Observers(k) == {c \in Callers : sub[c] = k}
IsActive(k) == Observers(k) # {}

\* partialMatchKey: the filter key is a prefix of the query key.
IsPrefix(p, k) ==
  /\ Len(p) <= Len(k)
  /\ \A i \in 1..Len(p) : p[i] = k[i]

\* Query.isStaleByTime
IsStale(e, k, t) ==
  \/ e.isInvalidated
  \/ e.data = NoData
  \/ t - e.dataUpdatedAt >= StaleTime(k)

\* shouldFetchOnMount of the query observer.
ShouldFetchOnMount(e, k, t) ==
  \/ e.data = NoData
  \/ /\ e.data # NoData
     /\ RefetchOnMount
     /\ IsStale(e, k, t)

ShouldFetchOnWindowFocusAlways(e, k, t) == TRUE

\* shouldFetchOn(query, options, refetchOnWindowFocus)
ShouldFetchOnWindowFocus(e, k, t) ==
  RefetchOnWindowFocus /\ IsStale(e, k, t)

InvokesLoaderAlways(e, cancelRefetch) == TRUE

\* Query.fetch: a request in flight is joined, unless cancelRefetch asks to
\* drop it and the query has data; otherwise queryFn is invoked.
InvokesLoader(e, cancelRefetch) ==
  ~(e.fetchStatus = "fetching" /\ ~(cancelRefetch /\ e.data # NoData))

FetchEntry(e, joiners, cancelRefetch) ==
  IF ~InvokesLoader(e, cancelRefetch)
  THEN [e EXCEPT !.waiters = @ \cup joiners]
  ELSE [e EXCEPT !.exists = TRUE, !.fetchStatus = "fetching",
                 !.status = IF e.data = NoData THEN "pending" ELSE @,
                 !.failureCount = 0, !.failureReason = 0,
                 !.waiters = joiners,
                 !.revertStatus =
                    IF e.fetchStatus = "fetching" THEN @ ELSE e.status,
                 !.revertFailures =
                    IF e.fetchStatus = "fetching" THEN @ ELSE e.failureCount]

\* Query.cancel({ revert: true }): the request in flight is dropped and the
\* query returns to its state before the fetch.
CancelEntry(e) ==
  IF e.fetchStatus = "fetching"
  THEN [e EXCEPT !.fetchStatus = "idle", !.waiters = {},
                 !.status = e.revertStatus,
                 !.failureCount = e.revertFailures,
                 !.revertStatus = "pending", !.revertFailures = 0]
  ELSE e

\* setQueryData: Query.setData through the success action.
SetData(e, v, t) ==
  [e EXCEPT !.exists = TRUE, !.data = v, !.dataUpdatedAt = t,
            !.isInvalidated = FALSE, !.status = "success"]

(***************************************************************************)
(* Backend reads.                                                          *)
(***************************************************************************)
IsDetailKey(k) == Len(k) = 2 /\ k[2] \in EntityIds

Existing(srv, family) ==
  {srv[i] : i \in {j \in EntityIds : FamilyOf(j) = family /\ srv[j] # NoEnt}}

CanLoad(srv, k) == IsDetailKey(k) => srv[k[2]] # NoEnt

Load(srv, k) ==
  IF IsDetailKey(k) THEN Doc(srv[k[2]]) ELSE List(Existing(srv, k[1]))

(***************************************************************************)
(* services/api: the response error interceptor, status 401.               *)
(***************************************************************************)
Teardown ==
  /\ tokens' = FALSE
  /\ storedUser' = FALSE
  /\ reloadPending' = (reloadPending \/ path # "login")
  /\ UNCHANGED <<authState, path>>

Intercept(status) ==
  IF status = 401 THEN Teardown ELSE UNCHANGED authVars

LoggedIn == tokens /\ path = "app"

\* The continuations of a mutate call (the awaits before and inside onMutate)
\* are microtasks: no other task starts while one is outstanding.
TaskMayRun == \A m \in DOMAIN mut : mut[m].phase # "onMutate"

(***************************************************************************)
(* Mutation slots: one per mutate() call.                                  *)
(***************************************************************************)
IdleMut ==
  [hook |-> "none", phase |-> "idle", id |-> "", data |-> <<>>,
   context |-> NoData, optimistic |-> NoData, before |-> NoData,
   failureCount |-> 0, attempts |-> 0, lastError |-> 0, remoteOk |-> FALSE]

InitialServer ==
  [i \in EntityIds |->
     IF i \in {"s2", "a2"} THEN NoEnt ELSE [id |-> i, location |-> "L0", updatedAt |-> 0]]

\* The application after it has loaded, with the values i in the form or
\* the call at hand.
(***************************************************************************)
(* stores/filterStore: the defaults of useFilterStore.  A field that an    *)
(* entry does not hold has the value "<undefined>".                        *)
(***************************************************************************)
defaultSitesFilters ==
  [searchTerm |-> "", type |-> "<undefined>", status |-> "all",
   sortBy |-> "updatedAt", sortDirection |-> "desc"]

defaultClientsFilters ==
  [searchTerm |-> "", sortBy |-> "clientName", sortDirection |-> "asc"]

defaultActivitiesFilters ==
  [searchTerm |-> "", dateFrom |-> "<undefined>", dateTo |-> "<undefined>",
   sortBy |-> "date", sortDirection |-> "desc"]

defaultFilters ==
  [sitesFilters |-> defaultSitesFilters,
   clientsFilters |-> defaultClientsFilters,
   activitiesFilters |-> defaultActivitiesFilters]

Start(i) ==
  /\ filters = defaultFilters
  /\ cache = [k \in Keys |-> EmptyEntry]
  /\ loaderCalls = [k \in Keys |-> 0]
  /\ sub = [c \in Callers |-> NoKey]
  /\ delivered = [c \in Callers |-> NoData]
  /\ now = 0
  /\ server = InitialServer
  /\ mut = [m \in Muts |-> IdleMut]
  /\ stamp = 0
  /\ tokens = TRUE
  /\ storedUser = FALSE
  /\ authState = TRUE
  /\ path = "app"
  /\ reloadPending = FALSE
  /\ input = i
  /\ issues = {}
  /\ output = <<>>
  /\ stage = "editing"

Init == Start(<<>>)

(***************************************************************************)
(* useQuery: a component that uses the hook of key k mounts.               *)
(***************************************************************************)
Mount(c, k) ==
  /\ TaskMayRun
  /\ LoggedIn
  /\ sub[c] = NoKey
  /\ \A d \in Callers : d < c => sub[d] # NoKey
  /\ LET e == [cache[k] EXCEPT !.exists = TRUE]
         fetches == ShouldFetchOnMount(e, k, now)
         invokes == fetches /\ InvokesLoader(e, FALSE)
     IN /\ invokes => loaderCalls[k] < MaxLoaderCalls
        /\ cache' = [cache EXCEPT ![k] =
                       IF fetches THEN FetchEntry(e, {c}, FALSE) ELSE e]
        /\ loaderCalls' = [loaderCalls EXCEPT ![k] =
                             IF invokes THEN @ + 1 ELSE @]
  /\ sub' = [sub EXCEPT ![c] = k]
  /\ UNCHANGED <<delivered, now, server, mut, stamp>>
  /\ UNCHANGED authVars
  /\ UNCHANGED formVars

Unmount(c) ==
  /\ TaskMayRun
  /\ sub[c] # NoKey
  /\ sub' = [sub EXCEPT ![c] = NoKey]
  /\ cache' = [k \in Keys |-> [cache[k] EXCEPT !.waiters = @ \ {c}]]
  /\ delivered' = [delivered EXCEPT ![c] = NoData]
  /\ UNCHANGED <<loaderCalls, now, server, mut, stamp>>
  /\ UNCHANGED authVars
  /\ UNCHANGED formVars

(***************************************************************************)
(* The response of the request in flight for key k arrives.                *)
(***************************************************************************)
LoaderResolve(k) ==
  /\ TaskMayRun
  /\ cache[k].fetchStatus = "fetching"
  /\ CanLoad(server, k)
  /\ LET v == Load(server, k)
     IN /\ cache' = [cache EXCEPT ![k] =
                       [SetData(@, v, now) EXCEPT !.fetchStatus = "idle",
                                                  !.failureCount = 0,
                                                  !.failureReason = 0,
                                                  !.waiters = {},
                                                  !.revertStatus = "pending",
                                                  !.revertFailures = 0]]
        /\ delivered' = [c \in Callers |->
                           IF c \in cache[k].waiters THEN v ELSE delivered[c]]
  /\ loaderCalls' = [loaderCalls EXCEPT ![k] = 0]
  /\ UNCHANGED <<sub, now, server, mut, stamp>>
  /\ UNCHANGED authVars
  /\ UNCHANGED formVars

LoaderFail(k, status) ==
  /\ TaskMayRun
  /\ cache[k].fetchStatus = "fetching"
  /\ status \in ReadErrors
  /\ Intercept(status)
  /\ IF RetryQuery(cache[k].failureCount, status)
     THEN /\ loaderCalls[k] < MaxLoaderCalls
          /\ cache' = [cache EXCEPT ![k].failureCount = @ + 1,
                                    ![k].failureReason = status]
          /\ loaderCalls' = [loaderCalls EXCEPT ![k] = @ + 1]
     ELSE /\ cache' = [cache EXCEPT ![k].fetchStatus = "idle",
                                    ![k].status = "error",
                                    ![k].failureCount = @ + 1,
                                    ![k].failureReason = status,
                                    ![k].waiters = {},
                                    ![k].revertStatus = "pending",
                                    ![k].revertFailures = 0]
          /\ loaderCalls' = [loaderCalls EXCEPT ![k] = 0]
  /\ UNCHANGED <<sub, delivered, now, server, mut, stamp>>
  /\ UNCHANGED formVars

(***************************************************************************)
(* focusManager: the window regains focus; every mounted observer whose    *)
(* query is stale fetches.                                                 *)
(***************************************************************************)
WindowFocus ==
  /\ TaskMayRun
  /\ LoggedIn
  /\ \E k \in Keys : IsActive(k) /\ ShouldFetchOnWindowFocus(cache[k], k, now)
  /\ \A k \in Keys :
       (IsActive(k) /\ ShouldFetchOnWindowFocus(cache[k], k, now)
          /\ InvokesLoader(cache[k], FALSE))
       => loaderCalls[k] < MaxLoaderCalls
  /\ cache' = [k \in Keys |->
                 IF IsActive(k) /\ ShouldFetchOnWindowFocus(cache[k], k, now)
                 THEN FetchEntry(cache[k], {}, FALSE) ELSE cache[k]]
  /\ loaderCalls' = [k \in Keys |->
                       IF /\ IsActive(k)
                          /\ ShouldFetchOnWindowFocus(cache[k], k, now)
                          /\ InvokesLoader(cache[k], FALSE)
                       THEN loaderCalls[k] + 1 ELSE loaderCalls[k]]
  /\ UNCHANGED <<sub, delivered, now, server, mut, stamp>>
  /\ UNCHANGED authVars
  /\ UNCHANGED formVars

(***************************************************************************)
(* queryClient.invalidateQueries({ queryKey }): marks the matching queries *)
(* invalidated and refetches those that are active, dropping a request in  *)
(* flight.                                                                 *)
(***************************************************************************)
Refetches(c0, prefix, k) ==
  c0[k].exists /\ IsPrefix(prefix, k) /\ IsActive(k)

InvalidatedRemoves(c0, prefix) ==
  [k \in Keys |->
     IF c0[k].exists /\ IsPrefix(prefix, k) THEN EmptyEntry ELSE c0[k]]

Invalidated(c0, prefix) ==
  [k \in Keys |->
     IF c0[k].exists /\ IsPrefix(prefix, k)
     THEN LET e == [c0[k] EXCEPT !.isInvalidated = TRUE]
          IN IF IsActive(k) THEN FetchEntry(e, {}, TRUE) ELSE e
     ELSE c0[k]]

InvalidatedCalls(c0, l0, prefix) ==
  [k \in Keys |->
     IF Refetches(c0, prefix, k) /\ InvokesLoader(c0[k], TRUE)
     THEN l0[k] + 1 ELSE l0[k]]

\* lib/queryClient: the exported helper.
invalidateQueries(queryKey) ==
  /\ TaskMayRun
  /\ \E k \in Keys : cache[k].exists /\ IsPrefix(queryKey, k)
  /\ \A k \in Keys : loaderCalls[k] < MaxLoaderCalls
  /\ cache' = Invalidated(cache, queryKey)
  /\ loaderCalls' = InvalidatedCalls(cache, loaderCalls, queryKey)
  /\ UNCHANGED <<sub, delivered, now, server, mut, stamp>>
  /\ UNCHANGED authVars
  /\ UNCHANGED formVars

Tick ==
  /\ TaskMayRun
  /\ now < MaxTime
  /\ now' = now + 1
  /\ UNCHANGED <<cache, loaderCalls, sub, delivered, server, mut, stamp>>
  /\ UNCHANGED authVars
  /\ UNCHANGED formVars

(***************************************************************************)
(* Mutations: useUpdate*Mutation (optimistic), useCreateSiteMutation,      *)
(* useDeleteSiteMutation, useDeleteClientMutation.                         *)
(***************************************************************************)
UpdateHooks == {"updateSite", "updateClient", "updateActivity"}
DeleteHooks == {"deleteSite", "deleteClient"}
PlainHooks == {"createSite"} \cup DeleteHooks
ActivityHooks == {"createActivity", "updateActivity"}
CreateHooks == {"createSite", "createActivity"}

TargetId(h) ==
  CASE h = "updateSite" -> "s1"
    [] h = "updateClient" -> "c1"
    [] h = "updateActivity" -> "a1"
    [] h = "createSite" -> "s2"
    [] h = "createActivity" -> "a2"
    [] h = "deleteClient" -> "c1"
    [] OTHER -> "s1"

DetailKey(id) ==
  CASE FamilyOf(id) = "sites" -> SITE(id)
    [] FamilyOf(id) = "clients" -> CLIENT(id)
    [] OTHER -> ACTIVITY(id)

MutKey(m) == DetailKey(mut[m].id)

\* mutate(variables) on the record id: the mutation is created and becomes
\* pending; onMutate of an update hook runs after the awaits of
\* Mutation.execute.
MutateAt(m, h, id, data) ==
  /\ LoggedIn
  /\ mut[m].phase = "idle"
  /\ \A n \in Muts : n < m => mut[n].phase # "idle"
  /\ h \in UpdateHooks \cup PlainHooks \cup CreateHooks
  /\ h \notin UpdateHooks => data = <<>>
  /\ FamilyOf(id) = FamilyOf(TargetId(h))
  /\ mut' = [mut EXCEPT ![m] =
       [IdleMut EXCEPT !.hook = h, !.id = id, !.data = data,
                       !.phase = IF h \in UpdateHooks THEN "onMutate"
                                 ELSE "pending",
                       !.attempts = IF h \in UpdateHooks THEN 0 ELSE 1,
                       !.before = IF h \in UpdateHooks
                                  THEN cache[DetailKey(id)].data
                                  ELSE NoData]]
  /\ UNCHANGED <<cache, loaderCalls, sub, delivered, now, server, stamp>>
  /\ UNCHANGED authVars
  /\ UNCHANGED formVars

Mutate(m, h, data) == MutateAt(m, h, TargetId(h), data)

OptimisticWriteNever(e, data, at, t) == e

\* if (previous) setQueryData(key, { ...previous, ...data, updatedAt })
OptimisticWrite(e, data, at, t) ==
  IF e.data # NoData THEN SetData(e, Doc(Merge(e.data.ent, data, at)), t)
  ELSE e

\* onMutate: cancelQueries, snapshot, optimistic write; then mutationFn runs.
\* The handlers of mutations started in one task run in the order of their
\* mutate calls.
OnMutate(m) ==
  /\ mut[m].phase = "onMutate"
  /\ \A n \in Muts : n < m => mut[n].phase # "onMutate"
  /\ LET k == MutKey(m)
         cancelled == CancelEntry(cache[k])
         previous == cancelled.data
         written == OptimisticWrite(cancelled, mut[m].data, stamp + 1, now)
     IN /\ cache' = [cache EXCEPT ![k] = written]
        /\ mut' = [mut EXCEPT ![m].phase = "pending",
                              ![m].context = previous,
                              ![m].optimistic =
                                 IF written.data # previous THEN written.data
                                 ELSE NoData,
                              ![m].attempts = 1]
  /\ loaderCalls' = [loaderCalls EXCEPT ![MutKey(m)] = 0]
  /\ stamp' = stamp + 1
  /\ UNCHANGED <<sub, delivered, now, server>>
  /\ UNCHANGED authVars
  /\ UNCHANGED formVars

\* The backend applies a write.
Applied(srv, h, id, data, at) ==
  CASE h \in UpdateHooks -> [srv EXCEPT ![id] = Merge(srv[id], data, at)]
    [] h \in CreateHooks ->
         [srv EXCEPT ![id] = [id |-> id, location |-> "L0", updatedAt |-> at]]
    [] OTHER -> [srv EXCEPT ![id] = NoEnt]

\* The activity a1 is a booking of the client c1.
Referenced(srv, id) == id = "c1" /\ srv["a1"] # NoEnt

\* The backend accepts a write: a create of a record that does not exist, an
\* update or delete of one that does, no delete of a referenced client.
CanApply(srv, h, id) ==
  CASE h \in CreateHooks -> srv[id] = NoEnt
    [] h = "deleteClient" -> srv[id] # NoEnt /\ ~Referenced(srv, id)
    [] OTHER -> srv[id] # NoEnt

\* invalidateQueries calls of an onSuccess handler, in order, up to the
\* first call that throws.
InvalidationsOf(h) ==
  CASE h \in {"updateClient", "deleteClient"} -> <<CLIENTS>>
    [] h \in ActivityHooks -> <<ACTIVITIES>>
    [] OTHER -> <<SITES, SITES_WITH_STATUS>>

\* onSuccess of useCreateActivityMutation and of useUpdateActivityMutation
\* calls QUERY_KEYS.SITE_ACTIVITIES.
OnSuccessThrows(h) ==
  h \in ActivityHooks /\ "SITE_ACTIVITIES" \notin QueryKeyMembers

RECURSIVE InvalidatedAll(_, _)
InvalidatedAll(c0, prefixes) ==
  IF prefixes = <<>> THEN c0
  ELSE InvalidatedAll(Invalidated(c0, Head(prefixes)), Tail(prefixes))

RECURSIVE InvalidatedAllCalls(_, _, _)
InvalidatedAllCalls(c0, l0, prefixes) ==
  IF prefixes = <<>> THEN l0
  ELSE InvalidatedAllCalls(Invalidated(c0, Head(prefixes)),
                           InvalidatedCalls(c0, l0, Head(prefixes)),
                           Tail(prefixes))

RolledBackNever(c0, k, context, t) == c0

\* onError of an update hook: rollback to the snapshot of onMutate.
RolledBack(c0, k, context, t) ==
  IF context # NoData THEN [c0 EXCEPT ![k] = SetData(@, context, t)] ELSE c0

\* onSuccess: what the handler does to the cache before it returns or throws.
AfterSuccess(c0, h, k, response, t) ==
  CASE h \in UpdateHooks -> [c0 EXCEPT ![k] = SetData(@, response, t)]
    [] h \in DeleteHooks -> [c0 EXCEPT ![k] = EmptyEntry]
    [] OTHER -> c0

AfterErrorAsSuccess(c0, h, k, context, t) ==
  InvalidatedAll(AfterSuccess(c0, h, k, NoData, t), InvalidationsOf(h))

\* onError: the rollback of an update hook; the other hooks only toast.
AfterError(c0, h, k, context, t) ==
  IF h \in UpdateHooks THEN RolledBack(c0, k, context, t) ELSE c0

\* The response of a successful remote call arrives: onSuccess runs, and
\* onError after it when onSuccess throws.
RemoteSuccess(m) ==
  /\ TaskMayRun
  /\ mut[m].phase = "pending"
  /\ CanApply(server, mut[m].hook, mut[m].id)
  /\ LET h == mut[m].hook
         k == MutKey(m)
         srv == Applied(server, h, mut[m].id, mut[m].data, stamp + 1)
         c1 == AfterSuccess(cache, h, k, Doc(srv[mut[m].id]), now)
         c2 == InvalidatedAll(c1, InvalidationsOf(h))
         l1 == IF h \in DeleteHooks THEN [loaderCalls EXCEPT ![k] = 0]
               ELSE loaderCalls
         l2 == InvalidatedAllCalls(c1, l1, InvalidationsOf(h))
     IN /\ \A kk \in Keys : l2[kk] <= MaxLoaderCalls
        /\ server' = srv
        /\ loaderCalls' = l2
        /\ cache' = IF OnSuccessThrows(h)
                    THEN RolledBack(c2, k, mut[m].context, now)
                    ELSE c2
        /\ sub' = IF h \in DeleteHooks
                  THEN [c \in Callers |-> IF sub[c] = k THEN NoKey ELSE sub[c]]
                  ELSE sub
        /\ mut' = [mut EXCEPT ![m].remoteOk = TRUE,
                              ![m].phase = IF OnSuccessThrows(h) THEN "error"
                                           ELSE "success"]
  /\ stamp' = stamp + 1
  /\ UNCHANGED <<delivered, now>>
  /\ UNCHANGED authVars
  /\ UNCHANGED formVars

\* The remote call fails: retried per the mutation retry option, else
\* onError runs and the error is surfaced.
RemoteFail(m, status) ==
  /\ TaskMayRun
  /\ mut[m].phase = "pending"
  /\ status \in WriteErrors
  /\ Intercept(status)
  /\ IF RetryMutation(mut[m].failureCount, status)
     THEN /\ mut' = [mut EXCEPT ![m].failureCount = @ + 1,
                                ![m].attempts = @ + 1]
          /\ UNCHANGED cache
     ELSE /\ mut' = [mut EXCEPT ![m].phase = "error",
                                ![m].failureCount = @ + 1,
                                ![m].lastError = status]
          /\ cache' = AfterError(cache, mut[m].hook, MutKey(m),
                                  mut[m].context, now)
  /\ UNCHANGED <<loaderCalls, sub, delivered, now, server, stamp>>
  /\ UNCHANGED formVars

(***************************************************************************)
(* Session: login, Header.handleLogout, and the page load that follows the *)
(* assignment of window.location.href by the 401 interceptor.              *)
(***************************************************************************)
Login ==
  /\ TaskMayRun
  /\ path = "login"
  /\ ~reloadPending
  /\ tokens' = TRUE
  /\ authState' = TRUE
  /\ path' = "app"
  /\ UNCHANGED <<storedUser, reloadPending>>
  /\ UNCHANGED <<cache, loaderCalls, sub, delivered, now, server, mut, stamp>>
  /\ UNCHANGED formVars

\* authService.logout(); clearAuthState(); navigate(ROUTES.LOGIN)
handleLogout ==
  /\ TaskMayRun
  /\ path = "app"
  /\ ~reloadPending
  /\ tokens' = FALSE
  /\ authState' = FALSE
  /\ path' = "login"
  /\ sub' = [c \in Callers |-> NoKey]
  /\ cache' = [k \in Keys |-> [cache[k] EXCEPT !.waiters = {}]]
  /\ delivered' = [c \in Callers |-> NoData]
  /\ UNCHANGED <<storedUser, reloadPending>>
  /\ UNCHANGED <<loaderCalls, now, server, mut, stamp>>
  /\ UNCHANGED formVars

\* The document is replaced: every in-memory object starts anew, the auth
\* store rehydrates from its persisted copy.
PageReload ==
  /\ TaskMayRun
  /\ reloadPending
  /\ reloadPending' = FALSE
  /\ path' = "login"
  /\ cache' = [k \in Keys |-> EmptyEntry]
  /\ sub' = [c \in Callers |-> NoKey]
  /\ delivered' = [c \in Callers |-> NoData]
  /\ mut' = [m \in Muts |->
               IF mut[m].phase \in {"onMutate", "pending"}
               THEN [mut[m] EXCEPT !.phase = "gone"] ELSE mut[m]]
  /\ loaderCalls' = [k \in Keys |-> 0]
  /\ UNCHANGED <<now, server, stamp, tokens, storedUser, authState>>
  /\ UNCHANGED formVars

(***************************************************************************)
(* lib/utils/validation: activitySchema.  A field holds a string, or        *)
(* `undefined' when the key is missing; a number field holds a tagged       *)
(* value.  An issue names the path of one field.                            *)
(***************************************************************************)
undefined == "<undefined>"
Truthy(v) == v # undefined /\ v # ""

NoNumber == [type |-> "undefined", n |-> 0]
NaN == [type |-> "nan", n |-> 0]
Num(n) == [type |-> "number", n |-> n]

Issue(field, message) == [path |-> <<field>>, message |-> message]

\* VALIDATION of config/constants.
RATE_MIN == 0
RATE_MAX == 10000000
BILL_NO_MAX_LENGTH == 100

\* new Date(s).getTime() of the date strings of the model, in days; any
\* other string is an Invalid Date, which compares false with everything.
DayNumber ==
  [d \in {"2024-01-01", "2024-01-15", "2024-02-14"} |->
     CASE d = "2024-01-01" -> 19723
       [] d = "2024-01-15" -> 19737
       [] OTHER -> 19767]
ValidDate(v) == v \in DOMAIN DayNumber
AfterOrSame(a, b) ==
  ValidDate(a) /\ ValidDate(b) /\ DayNumber[a] >= DayNumber[b]

\* new Date(a) > new Date(b)
After(a, b) == ValidDate(a) /\ ValidDate(b) /\ DayNumber[a] > DayNumber[b]
NotBefore(a, b) ==
  ValidDate(a) /\ ValidDate(b) /\ DayNumber[a] >= DayNumber[b]

\* z.string().min(1, message)
RequiredString(field, v, message) ==
  IF v = undefined THEN {Issue(field, "Required")}
  ELSE IF Len(v) < 1 THEN {Issue(field, message)}
  ELSE {}

\* z.enum(values, { message })  and  z.enum(values).optional()
EnumIssues(field, v, values, optional, message) ==
  IF optional /\ v = undefined THEN {}
  ELSE IF v \in values THEN {}
  ELSE {Issue(field, message)}

\* z.number().min(RATE.MIN).max(RATE.MAX).optional()
RateIssues(v) ==
  CASE v.type = "undefined" -> {}
    [] v.type = "nan" -> {Issue("ratePerMonth", "Expected number")}
    [] OTHER ->
         (IF v.n < RATE_MIN
          THEN {Issue("ratePerMonth", "Rate must be positive")} ELSE {})
         \cup
         (IF v.n > RATE_MAX
          THEN {Issue("ratePerMonth", "Rate must be less than 10000000")}
          ELSE {})

\* z.string().max(BILL_NO.MAX_LENGTH).optional()
BillNoIssues(v) ==
  IF v # undefined /\ Len(v) > BILL_NO_MAX_LENGTH
  THEN {Issue("billNo", "Bill number must be max 100 characters")}
  ELSE {}

ActionValues == {"shift", "new", "flex_change"}
BillTypeValues == {"quotation", "bill"}

\* The issues of the z.object: every field is parsed.
FieldIssues(d) ==
  RequiredString("date", d.date, "Activity date is required")
    \cup RequiredString("clientId", d.clientId, "Client is required")
    \cup RequiredString("siteId", d.siteId, "Site is required")
    \cup EnumIssues("action", d.action, ActionValues, FALSE,
                    "Please select an action type")
    \cup RequiredString("dateOfPurchase", d.dateOfPurchase,
                        "Date of purchase is required")
    \cup RequiredString("fromDate", d.fromDate, "From date is required")
    \cup BillNoIssues(d.billNo)
    \cup EnumIssues("billType", d.billType, BillTypeValues, TRUE,
                    "Invalid enum value")
    \cup RateIssues(d.ratePerMonth)

AbortedOnAnyIssue(d) == FieldIssues(d) # {}

\* An issue of the wrong type of a value aborts the parse of the object: the
\* refinements of the object run on a value of the declared type only.
Aborted(d) ==
  \/ undefined \in {d.date, d.clientId, d.siteId, d.dateOfPurchase, d.fromDate}
  \/ d.action \notin ActionValues
  \/ d.billType \notin BillTypeValues \cup {undefined}
  \/ d.ratePerMonth.type = "nan"

ShiftIssues(d) ==
  IF d.action = "shift" /\ ~Truthy(d.previousClientId)
  THEN {Issue("previousClientId",
              "Previous client is required for shift action")}
  ELSE {}

ToDateIssues(d) ==
  IF Truthy(d.toDate) /\ Truthy(d.fromDate) /\ ~After(d.toDate, d.fromDate)
  THEN {Issue("toDate", "End date must be after start date")}
  ELSE {}

FromDateIssues(d) ==
  IF /\ Truthy(d.fromDate) /\ Truthy(d.dateOfPurchase)
     /\ ~NotBefore(d.fromDate, d.dateOfPurchase)
  THEN {Issue("fromDate", "Start date should be on or after purchase date")}
  ELSE {}

RefinementIssues(d) == ShiftIssues(d) \cup ToDateIssues(d) \cup FromDateIssues(d)

\* activitySchema.safeParse(d): the issues; the parse succeeds when none.
ActivityIssues(d) ==
  IF Aborted(d) THEN FieldIssues(d)
  ELSE FieldIssues(d) \cup RefinementIssues(d)

(***************************************************************************)
(* lib/utils/validation: clientSchema.  The GST number is a sequence of     *)
(* characters; NoString is the `undefined' of a missing key.               *)
(***************************************************************************)
NoString == <<undefined>>
Digits == {"0", "1", "2", "3", "4", "5", "6", "7", "8", "9"}
Upper == {"A", "B", "C", "D", "E", "F", "G", "H", "I", "J", "K", "L", "M",
          "N", "O", "P", "Q", "R", "S", "T", "U", "V", "W", "X", "Y", "Z"}

CLIENT_NAME_MIN_LENGTH == 2
CLIENT_NAME_MAX_LENGTH == 200
GST_NUMBER_LENGTH == 15

GstClassAlphanumeric(i) ==
  CASE i \in {1, 2} -> Digits
    [] i \in 3..7 -> Upper
    [] i \in 8..11 -> Digits
    [] i = 12 -> Upper
    [] i = 13 -> Digits \cup Upper
    [] i = 14 -> {"Z"}
    [] OTHER -> Digits \cup Upper

\* VALIDATION.GST_NUMBER.PATTERN: the characters allowed at position i of
\* /^[0-9]{2}[A-Z]{5}[0-9]{4}[A-Z]{1}[1-9A-Z]{1}Z[0-9A-Z]{1}$/
GstClass(i) ==
  CASE i \in {1, 2} -> Digits
    [] i \in 3..7 -> Upper
    [] i \in 8..11 -> Digits
    [] i = 12 -> Upper
    [] i = 13 -> (Digits \ {"0"}) \cup Upper
    [] i = 14 -> {"Z"}
    [] OTHER -> Digits \cup Upper

\* PATTERN.test(val)
GstPatternTest(val) ==
  /\ Len(val) = 15
  /\ \A i \in 1..15 : val[i] \in GstClass(i)

\* gstNumber: z.string().optional().refine(val => !val || (val.length ===
\* LENGTH && PATTERN.test(val)), { message })
GstIssues(val) ==
  IF val = NoString \/ val = <<>> THEN {}
  ELSE IF Len(val) = GST_NUMBER_LENGTH /\ GstPatternTest(val) THEN {}
  ELSE {Issue("gstNumber",
              "Invalid GST number format. Must be 15 characters. Example: 29ABCDE1234F1Z5")}

\* name: z.string().min(MIN_LENGTH).max(MAX_LENGTH)
NameIssues(v) ==
  IF v = undefined THEN {Issue("name", "Required")}
  ELSE IF Len(v) < CLIENT_NAME_MIN_LENGTH
  THEN {Issue("name", "Client name must be at least 2 characters")}
  ELSE IF Len(v) > CLIENT_NAME_MAX_LENGTH
  THEN {Issue("name", "Client name must be max 200 characters")}
  ELSE {}

\* The e-mail strings of the model that pass z.string().email().
EmailAddresses == {"a@b.co"}

\* email: z.string().email('Invalid email format').optional().or(z.literal(''))
EmailIssues(v) ==
  IF v = undefined \/ v = "" \/ v \in EmailAddresses THEN {}
  ELSE {Issue("email", "Invalid email format")}

\* clientSchema.safeParse(d): the issues.
ClientIssues(d) ==
  NameIssues(d.name) \cup EmailIssues(d.email) \cup GstIssues(d.gstNumber)

\* clientSchema.safeParse(input)
ValidateClient ==
  /\ stage = "editing"
  /\ issues' = ClientIssues(input)
  /\ stage' = IF ClientIssues(input) = {} THEN "valid" ELSE "invalid"
  /\ UNCHANGED <<input, output>>
  /\ UNCHANGED <<cache, loaderCalls, sub, delivered, now, server, mut, stamp>>
  /\ UNCHANGED authVars
  /\ UNCHANGED filters

\* ActivityFormPage.onSubmit: the months and the amount of the booking.
FloorDiv(a, b) == a \div b

\* Math.ceil(a / b) of non-negative integers.
CeilDiv(a, b) == (a + b - 1) \div b
Span(a, b) == IF a >= b THEN a - b ELSE b - a

TotalMonths(d) ==
  IF Truthy(d.toDate) /\ Truthy(d.fromDate)
  THEN Num(CeilDiv(Span(DayNumber[d.toDate], DayNumber[d.fromDate]), 30))
  ELSE NoNumber

\* ActivityFormPage.onSubmit: the payload handed to the mutation.
ApiData(d) ==
  [action |-> d.action,
   siteId |-> d.siteId,
   clientId |-> d.clientId,
   previousClientId |->
     IF d.action = "shift" THEN d.previousClientId ELSE undefined,
   startDate |-> d.fromDate,
   endDate |-> IF Truthy(d.toDate) THEN d.toDate ELSE undefined,
   ratePerMonth |->
     IF d.ratePerMonth.type = "number" /\ d.ratePerMonth.n # 0
     THEN d.ratePerMonth ELSE Num(0),
   totalMonths |-> TotalMonths(d)]

(***************************************************************************)
(* types/activity.types: calculateActivityDuration.  Times are getTime()   *)
(* values in seconds; NoTime is an endDate that is absent.                 *)
(***************************************************************************)
NoTime == 0 - 1
SecondsPerDay == 86400
DaysPerMonth == 30

calculateActivityDuration(startDate, endDate, clock) ==
  LET from == startDate
      to == IF endDate # NoTime THEN endDate ELSE clock
      diffTime == Span(to, from)
      diffDays == CeilDiv(diffTime, SecondsPerDay)
  IN CeilDiv(diffDays, DaysPerMonth)

ComputeDuration ==
  /\ stage = "editing"
  /\ output' = calculateActivityDuration(input.startDate, input.endDate,
                                         input.clock)
  /\ stage' = "computed"
  /\ UNCHANGED <<input, issues>>
  /\ UNCHANGED <<cache, loaderCalls, sub, delivered, now, server, mut, stamp>>
  /\ UNCHANGED authVars
  /\ UNCHANGED filters

(***************************************************************************)
(* types/activity.types: calculateActivityRevenue.  ratePerMonth is        *)
(* `string | number': a string rate is Text of its characters.             *)
(***************************************************************************)
Text(chars) == [type |-> "string", n |-> 0, text |-> chars]

DigitValue ==
  [c \in Digits |->
     CASE c = "0" -> 0 [] c = "1" -> 1 [] c = "2" -> 2 [] c = "3" -> 3
       [] c = "4" -> 4 [] c = "5" -> 5 [] c = "6" -> 6 [] c = "7" -> 7
       [] c = "8" -> 8 [] c = "9" -> 9]

\* The longest prefix of decimal digits of a string.
RECURSIVE NumeralPrefix(_)
NumeralPrefix(chars) ==
  IF chars = <<>> \/ Head(chars) \notin Digits THEN <<>>
  ELSE <<Head(chars)>> \o NumeralPrefix(Tail(chars))

RECURSIVE NumeralValue(_)
NumeralValue(digits) ==
  IF digits = <<>> THEN 0
  ELSE 10 * NumeralValue(SubSeq(digits, 1, Len(digits) - 1))
         + DigitValue[digits[Len(digits)]]

\* parseFloat: the number its leading numeral denotes, NaN without one.
parseFloat(chars) ==
  IF NumeralPrefix(chars) = <<>> THEN NaN
  ELSE Num(NumeralValue(NumeralPrefix(chars)))

\* !activity.ratePerMonth is false for these.
TruthyRate(v) ==
  CASE v.type = "number" -> v.n # 0
    [] v.type = "string" -> v.text # <<>>
    [] OTHER -> FALSE

\* a * m of a number or NaN by a number.
Times(a, m) == IF a.type = "nan" THEN NaN ELSE Num(a.n * m)

calculateActivityRevenue(activity, clock) ==
  IF ~TruthyRate(activity.ratePerMonth) THEN Num(0)
  ELSE LET ratePerMonth ==
             IF activity.ratePerMonth.type = "string"
             THEN parseFloat(activity.ratePerMonth.text)
             ELSE activity.ratePerMonth
           months == calculateActivityDuration(activity.startDate,
                                               activity.endDate, clock)
       IN Times(ratePerMonth, months)

ComputeRevenue ==
  /\ stage = "editing"
  /\ output' = calculateActivityRevenue(input, input.clock)
  /\ stage' = "computed"
  /\ UNCHANGED <<input, issues>>
  /\ UNCHANGED <<cache, loaderCalls, sub, delivered, now, server, mut, stamp>>
  /\ UNCHANGED authVars
  /\ UNCHANGED filters

(***************************************************************************)
(* isActivityActive, of types/activity.types and of utils/helpers.  Dates  *)
(* are 'YYYY-MM-DD' strings compared as strings: a date is its day number, *)
(* NoTime an endDate that is absent, today the date of new Date().         *)
(***************************************************************************)
isActivityActive(activity, today) ==
  IF activity.endDate = NoTime THEN TRUE
  ELSE activity.endDate >= today

helpers_isActivityActive(activity, today) ==
  LET isAfterStart == activity.startDate <= today
      isBeforeEnd == activity.endDate = NoTime \/ activity.endDate >= today
  IN isAfterStart /\ isBeforeEnd

CheckActive ==
  /\ stage = "editing"
  /\ output' = isActivityActive(input, input.clock)
  /\ stage' = "computed"
  /\ UNCHANGED <<input, issues>>
  /\ UNCHANGED <<cache, loaderCalls, sub, delivered, now, server, mut, stamp>>
  /\ UNCHANGED authVars
  /\ UNCHANGED filters

helpers_CheckActive ==
  /\ stage = "editing"
  /\ output' = helpers_isActivityActive(input, input.clock)
  /\ stage' = "computed"
  /\ UNCHANGED <<input, issues>>
  /\ UNCHANGED <<cache, loaderCalls, sub, delivered, now, server, mut, stamp>>
  /\ UNCHANGED authVars
  /\ UNCHANGED filters

(***************************************************************************)
(* Repeated calls of the derived-value functions on one activity while the *)
(* clock of new Date() advances; output is the list of the results.        *)
(***************************************************************************)
DayPasses ==
  /\ input.clock < MaxDay
  /\ input' = [input EXCEPT !.clock = @ + 1]
  /\ UNCHANGED <<issues, output, stage>>
  /\ UNCHANGED <<cache, loaderCalls, sub, delivered, now, server, mut, stamp>>
  /\ UNCHANGED authVars
  /\ UNCHANGED filters

Returns(fn, value) ==
  /\ Len(output) < MaxCalls
  /\ output' = Append(output, [fn |-> fn, value |-> value])
  /\ UNCHANGED <<input, issues, stage>>
  /\ UNCHANGED <<cache, loaderCalls, sub, delivered, now, server, mut, stamp>>
  /\ UNCHANGED authVars
  /\ UNCHANGED filters

CallIsActive ==
  Returns("isActivityActive", helpers_isActivityActive(input, input.clock))

CallDuration ==
  Returns("calculateActivityDuration",
          calculateActivityDuration(
            input.startDate * SecondsPerDay,
            IF input.endDate = NoTime THEN NoTime
            ELSE input.endDate * SecondsPerDay,
            input.clock * SecondsPerDay))

(***************************************************************************)
(* utils/helpers: the functions on a list of activities.  An activity is   *)
(* its id and its startDate (a day number).                                *)
(***************************************************************************)
\* The comparator of sortActivitiesByDate: negative when a sorts before b.
CompareByDate(a, b) == b.startDate - a.startDate

\* Array.prototype.sort is stable: x goes after every element that does not
\* sort after it.
RECURSIVE InsertStable(_, _)
InsertStable(sorted, x) ==
  IF sorted = <<>> THEN <<x>>
  ELSE IF CompareByDate(Head(sorted), x) <= 0
       THEN <<Head(sorted)>> \o InsertStable(Tail(sorted), x)
       ELSE <<x>> \o sorted

RECURSIVE StableSort(_)
StableSort(list) ==
  IF list = <<>> THEN <<>>
  ELSE InsertStable(StableSort(SubSeq(list, 1, Len(list) - 1)),
                    list[Len(list)])

sortActivitiesByDate(activities) == StableSort(activities)

SortActivities ==
  /\ stage = "editing"
  /\ output' = sortActivitiesByDate(input)
  /\ stage' = "computed"
  /\ UNCHANGED <<input, issues>>
  /\ UNCHANGED <<cache, loaderCalls, sub, delivered, now, server, mut, stamp>>
  /\ UNCHANGED authVars
  /\ UNCHANGED filters

(***************************************************************************)
(* utils/helpers: calculateOccupancy.  Its arithmetic is that of the       *)
(* number type, IEEE 754 binary64 with round to nearest, ties to even: a   *)
(* positive number is its significand of MantissaBits bits and its         *)
(* exponent exp, and has the value significand * 2^(exp - MantissaBits + 1).*)
(***************************************************************************)
HiBits == 17
LimbBits == 18
MantissaBits == HiBits + 2 * LimbBits

RECURSIVE Pow2(_)
Pow2(k) == IF k = 0 THEN 1 ELSE 2 * Pow2(k - 1)

Limb == Pow2(LimbBits)

\* The significand is kept in three limbs, hi of HiBits bits (the leading
\* bit set) and mid and lo of LimbBits bits each.
Zero == [hi |-> 0, mid |-> 0, lo |-> 0, exp |-> 0]

\* The number next above the positive number x.
Above(x) ==
  IF x.lo + 1 < Limb THEN [x EXCEPT !.lo = @ + 1]
  ELSE IF x.mid + 1 < Limb THEN [x EXCEPT !.lo = 0, !.mid = @ + 1]
  ELSE IF x.hi + 1 < Pow2(HiBits)
       THEN [x EXCEPT !.lo = 0, !.mid = 0, !.hi = @ + 1]
  ELSE [hi |-> Pow2(HiBits - 1), mid |-> 0, lo |-> 0, exp |-> x.exp + 1]

\* Round to nearest, ties to even: rest is -1, 0 or 1 as what follows the
\* kept bits is below, at or above half a unit in the last place.
RoundToNearest(x, rest) ==
  IF rest = 1 \/ (rest = 0 /\ x.lo % 2 = 1) THEN Above(x) ELSE x

Sign(d) == IF d > 0 THEN 1 ELSE IF d = 0 THEN 0 ELSE -1

\* floor(log2(a / n)) of positive integers.
RECURSIVE Log2Floor(_, _)
Log2Floor(a, n) ==
  IF a >= n
  THEN IF a >= 2 * n THEN 1 + Log2Floor(a, 2 * n) ELSE 0
  ELSE Log2Floor(2 * a, n) - 1

\* a / n of two integers, n > 0: long division, a limb at a time.
FloatDiv(a, n) ==
  IF a = 0 THEN Zero
  ELSE LET exp == Log2Floor(a, n)
           num == IF exp < 0 THEN a * Pow2(0 - exp) ELSE a
           den == IF exp > 0 THEN n * Pow2(exp) ELSE n
           hi == (num * Pow2(HiBits - 1)) \div den
           r1 == (num * Pow2(HiBits - 1)) % den
           mid == (r1 * Limb) \div den
           r2 == (r1 * Limb) % den
           lo == (r2 * Limb) \div den
           r3 == (r2 * Limb) % den
       IN RoundToNearest([hi |-> hi, mid |-> mid, lo |-> lo, exp |-> exp],
                         Sign(2 * r3 - den))

\* The bits by which a top limb exceeds HiBits.
RECURSIVE Excess(_)
Excess(top) == IF top < Pow2(HiBits) THEN 0 ELSE 1 + Excess(top \div 2)

\* x * c of a number and a small natural number c >= 1.
FloatTimes(x, c) ==
  IF x = Zero THEN Zero
  ELSE LET p0 == x.lo * c
           p1 == x.mid * c + p0 \div Limb
           top == x.hi * c + p1 \div Limb
           l0 == p0 % Limb
           l1 == p1 % Limb
           s == Excess(top)
           down == Pow2(s)
           up == Pow2(LimbBits - s)
           kept == [hi |-> top \div down,
                    mid |-> (top % down) * up + l1 \div down,
                    lo |-> (l1 % down) * up + l0 \div down,
                    exp |-> x.exp + s]
       IN IF s = 0 THEN kept
          ELSE RoundToNearest(kept, Sign(2 * (l0 % down) - down))

AllSites(sites) == Len(sites)

\* sites.filter((site) => site.currentClientId).length
ActiveSites(sites) ==
  Cardinality({i \in DOMAIN sites : Truthy(sites[i].currentClientId)})

calculateOccupancy(sites) ==
  IF Len(sites) = 0 THEN Zero
  ELSE FloatTimes(FloatDiv(ActiveSites(sites), Len(sites)), 100)

ComputeOccupancy ==
  /\ stage = "editing"
  /\ output' = calculateOccupancy(input)
  /\ stage' = "computed"
  /\ UNCHANGED <<input, issues>>
  /\ UNCHANGED <<cache, loaderCalls, sub, delivered, now, server, mut, stamp>>
  /\ UNCHANGED authVars
  /\ UNCHANGED filters

(***************************************************************************)
(* stores/filterStore: the operations of useFilterStore.  `entry' is       *)
(* sitesFilters, clientsFilters or activitiesFilters.                      *)
(***************************************************************************)
\* The values the pages give to each field.
FilterValues ==
  [sitesFilters |->
     [searchTerm |-> {"", "mg"}, type |-> {undefined, "hoarding"},
      status |-> {"all"}, sortBy |-> {"updatedAt", "siteNo"},
      sortDirection |-> {"desc"}],
   clientsFilters |->
     [searchTerm |-> {"", "mg"}, sortBy |-> {"clientName"},
      sortDirection |-> {"asc", "desc"}],
   activitiesFilters |->
     [searchTerm |-> {""}, dateFrom |-> {undefined, "2024-01-01"},
      dateTo |-> {undefined, "2024-02-14"}, sortBy |-> {"date", "siteNo"},
      sortDirection |-> {"desc"}]]

FilterEntries == DOMAIN FilterValues
FilterFields(entry) == DOMAIN FilterValues[entry]

\* Partial<...Filters>: values for some of the fields of an entry.
PartialFilters ==
  [entry \in FilterEntries |->
     UNION {{p \in [S -> UNION {FilterValues[entry][f] : f \in S}] :
               \A f \in S : p[f] \in FilterValues[entry][f]} :
            S \in SUBSET FilterFields(entry)}]

\* { ...state, ...patch }
Spread(state, patch) ==
  [f \in DOMAIN state |-> IF f \in DOMAIN patch THEN patch[f] ELSE state[f]]

SetEntry(entry, value) ==
  /\ filters' = [filters EXCEPT ![entry] = value]
  /\ UNCHANGED <<input, issues, output, stage>>
  /\ UNCHANGED <<cache, loaderCalls, sub, delivered, now, server, mut, stamp>>
  /\ UNCHANGED authVars

\* setSitesFilters, setClientsFilters, setActivitiesFilters
setFilters(entry, patch) == SetEntry(entry, Spread(filters[entry], patch))

\* setSitesSearch, setClientsSearch, setActivitiesSearch
setSearch(entry, searchTerm) ==
  SetEntry(entry, Spread(filters[entry], [searchTerm |-> searchTerm]))

\* setSitesSort, setClientsSort, setActivitiesSort
setSort(entry, sortBy, sortDirection) ==
  SetEntry(entry, Spread(filters[entry],
                         [sortBy |-> sortBy, sortDirection |-> sortDirection]))

\* An argument the caller leaves out is undefined.
setActivitiesDateRange(dateFrom, dateTo) ==
  SetEntry("activitiesFilters",
           Spread(filters.activitiesFilters,
                  [dateFrom |-> dateFrom, dateTo |-> dateTo]))

\* resetSitesFilters, resetClientsFilters, resetActivitiesFilters
resetFilters(entry) == SetEntry(entry, defaultFilters[entry])

resetAllFilters ==
  /\ filters' = defaultFilters
  /\ UNCHANGED <<input, issues, output, stage>>
  /\ UNCHANGED <<cache, loaderCalls, sub, delivered, now, server, mut, stamp>>
  /\ UNCHANGED authVars

(***************************************************************************)
(* services: what a list or get-by-id function returns for a response      *)
(* body.  A JSON value is Arr of its items or Obj of its fields; Undefined *)
(* is a property that is not there, TypeError a thrown TypeError.          *)
(***************************************************************************)
Arr(items) == [kind |-> "array", items |-> items]
Obj(fields) == [kind |-> "object", fields |-> fields]
Undefined == [kind |-> "undefined"]
TypeError == [kind |-> "TypeError"]

\* key in data
In(key, data) == data.kind = "object" /\ key \in DOMAIN data.fields

\* data.key
Get(data, key) == IF In(key, data) THEN data.fields[key] ELSE Undefined

\* a || b, of values that are objects, arrays or undefined
Or(a, b) == IF a.kind # "undefined" THEN a ELSE b

\* api.ts, the response interceptor: the ApiResponse wrapper is taken off.
OnFulfilled(data) ==
  IF In("success", data) /\ In("data", data) THEN data.fields.data ELSE data

\* types/activity.types: transformActivityWithRelations; item.activity.id
\* throws when item has no activity.
transformActivity(item) ==
  IF Get(item, "activity").kind = "undefined" THEN TypeError
  ELSE Obj([id |-> item.fields.activity.fields.id,
            siteId |-> item.fields.site.fields.id,
            clientId |-> item.fields.client.fields.id])

\* activitiesWithRelations.map(transformActivity)
MapTransform(list) ==
  IF list.kind # "array" THEN TypeError
  ELSE IF \E i \in DOMAIN list.items :
            transformActivity(list.items[i]) = TypeError
       THEN TypeError
  ELSE Arr([i \in DOMAIN list.items |-> transformActivity(list.items[i])])

\* The field under which the backend puts the payload of each operation.
EnvelopeField ==
  [getSites |-> "sites", getSiteById |-> "site", searchSites |-> "sites",
   getSitesWithStatus |-> "sites", getClients |-> "clients",
   getClientById |-> "client", getActivities |-> "activities",
   getActivityById |-> "activity"]

Operations == DOMAIN EnvelopeField

\* The service function of operation op on the body the interceptor left.
ServiceReturns(op, data) ==
  CASE op = "getSitesWithStatus" -> data
    [] op = "getActivities" -> MapTransform(Or(Get(data, "activities"), data))
    [] op = "getActivityById" ->
         transformActivity(Or(Get(data, "activity"), data))
    [] OTHER -> Or(Get(data, EnvelopeField[op]), data)

Respond ==
  /\ stage = "editing"
  /\ output' = ServiceReturns(input.op, OnFulfilled(input.body))
  /\ stage' = "computed"
  /\ UNCHANGED <<input, issues>>
  /\ UNCHANGED <<cache, loaderCalls, sub, delivered, now, server, mut, stamp>>
  /\ UNCHANGED authVars
  /\ UNCHANGED filters

(***************************************************************************)
(* components/ProtectedRoute and AuthService.isAuthenticated.  The access  *)
(* token is the localStorage item: absent, the empty string, a string      *)
(* without a second dot-separated part, one whose payload does not decode, *)
(* one whose payload has no exp, or a JWT with an exp claim in seconds.    *)
(* The clock is Date.now() in milliseconds.                                *)
(***************************************************************************)
NoUser == [role |-> "null"]

\* !token, tokenParts.length < 2 || !tokenParts[1], the catch of the parse,
\* and Date.now() < NaN are all false.
isAuthenticated(token, clock) ==
  IF token.kind \in {"null", "empty"} THEN FALSE
  ELSE IF token.kind = "one part" THEN FALSE
  ELSE IF token.kind = "not json" THEN FALSE
  ELSE IF token.kind = "no exp" THEN FALSE
  ELSE clock < token.exp * 1000

\* roleHierarchy[role] || 0
roleHierarchy(role) ==
  CASE role = "user" -> 1
    [] role = "manager" -> 2
    [] role = "admin" -> 3
    [] OTHER -> 0

\* if (requiredRole && user)
RoleCheck(requiredRole, user) == requiredRole # Undefined /\ user # NoUser

ProtectedRoute(token, clock, user, requiredRole) ==
  IF ~isAuthenticated(token, clock) THEN "Navigate /login"
  ELSE IF /\ RoleCheck(requiredRole, user)
          /\ roleHierarchy(user.role) < roleHierarchy(requiredRole.role)
       THEN "Navigate /dashboard"
       ELSE "children"

RenderRoute ==
  /\ stage = "editing"
  /\ output' = ProtectedRoute(input.token, input.clock, input.user,
                               input.requiredRole)
  /\ stage' = "computed"
  /\ UNCHANGED <<input, issues>>
  /\ UNCHANGED <<cache, loaderCalls, sub, delivered, now, server, mut, stamp>>
  /\ UNCHANGED authVars
  /\ UNCHANGED filters

\* The value the resolver hands to activitySchema: the fields of the form;
\* the form registers dateOfPublish and no dateOfPurchase, and the object
\* schema strips the key it does not know.
FormData(f) ==
  [date |-> f.date, clientId |-> f.clientId, siteId |-> f.siteId,
   previousClientId |-> f.previousClientId, action |-> f.action,
   dateOfPurchase |-> undefined, fromDate |-> f.fromDate,
   toDate |-> f.toDate, billNo |-> f.billNo, billType |-> f.billType,
   ratePerMonth |-> f.ratePerMonth]

\* activitySchema.safeParse(input)
ValidateActivity ==
  /\ stage = "editing"
  /\ issues' = ActivityIssues(input)
  /\ stage' = IF ActivityIssues(input) = {} THEN "valid" ELSE "invalid"
  /\ UNCHANGED <<input, output>>
  /\ UNCHANGED <<cache, loaderCalls, sub, delivered, now, server, mut, stamp>>
  /\ UNCHANGED authVars
  /\ UNCHANGED filters

\* onSubmit(data) of the activity form, on data that passed validation.
SubmitActivity ==
  /\ stage = "valid"
  /\ output' = ApiData(input)
  /\ stage' = "submitted"
  /\ UNCHANGED <<input, issues>>
  /\ UNCHANGED <<cache, loaderCalls, sub, delivered, now, server, mut, stamp>>
  /\ UNCHANGED authVars
  /\ UNCHANGED filters

\* handleSubmit(onSubmit) of ActivityFormPage: the resolver validates the
\* values of the form; onSubmit runs when there is no issue.
SubmitActivityForm ==
  /\ stage = "editing"
  /\ LET d == FormData(input)
     IN /\ issues' = ActivityIssues(d)
        /\ stage' = IF ActivityIssues(d) = {} THEN "submitted" ELSE "invalid"
        /\ output' = IF ActivityIssues(d) = {} THEN ApiData(d) ELSE output
  /\ UNCHANGED input
  /\ UNCHANGED <<cache, loaderCalls, sub, delivered, now, server, mut, stamp>>
  /\ UNCHANGED authVars
  /\ UNCHANGED filters

(***************************************************************************)
(* Specifications.                                                         *)
(***************************************************************************)
FetchKeys == {SitesListKey, SITES_WITH_STATUS}
InvalidateKeys == {SitesListKey, SITE("s1"), ClientSearchKey}
MutateKeys == {SITE("s1"), CLIENT("c1"), ACTIVITY("a1")}
SessionKeys == {SitesListKey, SITE("s1")}

\* Reads over time: mounts, responses, focus, the clock.
NextFetch ==
  \/ \E c \in Callers, k \in FetchKeys : Mount(c, k)
  \/ \E c \in Callers : Unmount(c)
  \/ \E k \in FetchKeys : LoaderResolve(k)
  \/ \E k \in FetchKeys : LoaderFail(k, 404)
  \/ WindowFocus
  \/ Tick

SpecFetch == Init /\ [][NextFetch]_vars

\* Concurrent reads, failures and retries.
NextRead ==
  \/ \E c \in Callers, k \in FetchKeys : Mount(c, k)
  \/ \E c \in Callers : Unmount(c)
  \/ \E k \in FetchKeys : LoaderResolve(k)
  \/ \E k \in FetchKeys, status \in ReadErrors : LoaderFail(k, status)
  \/ PageReload
  \/ Login

SpecRead == Init /\ [][NextRead]_vars

\* Reads and invalidation.
NextInvalidate ==
  \/ \E c \in Callers, k \in InvalidateKeys : Mount(c, k)
  \/ \E c \in Callers : Unmount(c)
  \/ \E k \in InvalidateKeys : LoaderResolve(k)
  \/ \E k \in InvalidateKeys : LoaderFail(k, 404)
  \/ WindowFocus
  \/ \E queryKey \in {SITES, CLIENTS} : invalidateQueries(queryKey)

SpecInvalidate == Init /\ [][NextInvalidate]_vars

\* Writes, interleaved with reads of the mutated keys.  One behaviour works
\* on the records of one entity family.
Touched ==
  {FamilyOf(mut[m].id) : m \in {n \in Muts : mut[n].phase # "idle"}}
    \cup {k[1] : k \in {kk \in Keys : cache[kk].exists}}

NextMutate ==
  \/ \E m \in Muts, h \in UpdateHooks \cup PlainHooks, data \in Patches :
       Touched \subseteq {FamilyOf(TargetId(h))} /\ Mutate(m, h, data)
  \/ \E m \in Muts : OnMutate(m)
  \/ \E m \in Muts : RemoteSuccess(m)
  \/ \E m \in Muts, status \in WriteErrors : RemoteFail(m, status)
  \/ \E k \in MutateKeys : Touched \subseteq {k[1]} /\ Mount(1, k)
  \/ \E k \in MutateKeys : LoaderResolve(k)
  \/ \E k \in MutateKeys : LoaderFail(k, 404)
  \/ PageReload
  \/ Login

Spec == Init /\ [][NextMutate]_vars

\* Session lifecycle.
NextSession ==
  \/ \E c \in Callers, k \in SessionKeys : Mount(c, k)
  \/ \E c \in Callers : Unmount(c)
  \/ \E k \in SessionKeys : LoaderResolve(k)
  \/ \E k \in SessionKeys, status \in ReadErrors : LoaderFail(k, status)
  \/ handleLogout
  \/ Login
  \/ PageReload

SpecSession == Init /\ [][NextSession]_vars

\* The life of one site entry: reads, the clock, focus, updates and deletes.
EntryKeys == {SITE("s1"), SitesListKey}
EntryHooks == {"updateSite", "deleteSite"}

NextEntry ==
  \/ \E k \in EntryKeys : Mount(1, k)
  \/ Unmount(1)
  \/ \E k \in EntryKeys : LoaderResolve(k)
  \/ \E k \in EntryKeys : LoaderFail(k, 404)
  \/ WindowFocus
  \/ Tick
  \/ \E h \in EntryHooks : Mutate(1, h, <<>>)
  \/ OnMutate(1)
  \/ RemoteSuccess(1)
  \/ RemoteFail(1, 500)

SpecEntry == Init /\ [][NextEntry]_vars

\* Lists, creates and deletes, without a reload of the document.
ListKeys == {SitesListKey, ClientsListKey}
ListHooks == {"createSite", "deleteClient"}

NextList ==
  \/ \E c \in Callers, k \in ListKeys : Mount(c, k)
  \/ \E c \in Callers : Unmount(c)
  \/ \E k \in ListKeys : LoaderResolve(k)
  \/ \E k \in ListKeys : LoaderFail(k, 500)
  \/ WindowFocus
  \/ \E m \in Muts, h \in ListHooks : Mutate(m, h, <<>>)
  \/ \E m \in Muts : RemoteSuccess(m)
  \/ \E m \in Muts, status \in {409, 500} : RemoteFail(m, status)

SpecList == Init /\ [][NextList]_vars

\* A request in flight is answered: by its response, or by the timeout of
\* API_CONFIG.TIMEOUT as a failure.
FairSpecList ==
  /\ SpecList
  /\ WF_vars(\E k \in ListKeys : LoaderResolve(k))

\* Two sites updated at the same time.
PairIds == {"s1", "s3"}
PairKeys == {SITE(id) : id \in PairIds}

NextPair ==
  \/ \E c \in Callers, k \in PairKeys : Mount(c, k)
  \/ \E k \in PairKeys : LoaderResolve(k)
  \/ \E k \in PairKeys : LoaderFail(k, 404)
  \/ \E m \in Muts, id \in PairIds, data \in Patches :
       MutateAt(m, "updateSite", id, data)
  \/ \E m \in Muts : OnMutate(m)
  \/ \E m \in Muts : RemoteSuccess(m)
  \/ \E m \in Muts : RemoteFail(m, 500)

SpecPair == Init /\ [][NextPair]_vars

\* activitySchema on the values of its fields.
LongBillNo ==
  "00000000000000000000000000000000000000000000000000"
    \o "000000000000000000000000000000000000000000000000000"

ActivityInputs ==
  [date : {"", "2024-01-15"},
   clientId : {"", "c1"},
   siteId : {"", "s1"},
   previousClientId : {undefined, "", "c2"},
   action : {"", "shift", "new", "flex_change"},
   dateOfPurchase : {undefined, "2024-01-01", "2024-02-14"},
   fromDate : {"", "2024-01-01", "2024-01-15"},
   toDate : {undefined, "", "2024-01-01", "2024-01-15", "2024-02-14", "n/a"},
   billNo : {"", LongBillNo},
   billType : {undefined, ""},
   ratePerMonth : {NoNumber, NaN, Num(0 - 1), Num(100), Num(RATE_MAX + 1)}]

InitActivitySchema == \E i \in ActivityInputs : Start(i)

NextActivitySchema ==
  \/ ValidateActivity
  \/ SubmitActivity

SpecActivitySchema == InitActivitySchema /\ [][NextActivitySchema]_vars

\* The activity form: what a user can enter in its fields.
ActivityFormInputs ==
  [date : {"", "2024-01-15"},
   clientId : {"", "c1"},
   siteId : {"", "s1"},
   previousClientId : {"", "c2"},
   action : {"", "shift", "new", "flex_change"},
   dateOfPublish : {"", "2024-01-01"},
   fromDate : {"", "2024-01-01", "2024-01-15"},
   toDate : {"", "2024-01-01", "2024-02-14"},
   billNo : {""},
   billType : {"", "quotation", "bill", "foc"},
   ratePerMonth : {NaN, Num(100)}]

InitActivityForm == \E i \in ActivityFormInputs : Start(i)

NextActivityForm == SubmitActivityForm

SpecActivityForm == InitActivityForm /\ [][NextActivityForm]_vars

\* clientSchema on the values of its fields: the example GST number with
\* one character replaced, shortened and lengthened.
ExampleGst ==
  <<"2", "9", "A", "B", "C", "D", "E", "1", "2", "3", "4", "F", "1", "Z", "5">>
GstAlphabet == {"0", "5", "A", "Z", "a", "-"}
GstInputs ==
  {[ExampleGst EXCEPT ![i] = ch] : i \in 1..15, ch \in GstAlphabet}
    \cup {NoString, <<>>, SubSeq(ExampleGst, 1, 14), ExampleGst \o <<"5">>}

ClientInputs ==
  [name : {"A", "Acme"},
   email : {undefined, "", "a@b.co", "ab"},
   gstNumber : GstInputs]

InitClientSchema == \E i \in ClientInputs : Start(i)

NextClientSchema == ValidateClient

SpecClientSchema == InitClientSchema /\ [][NextClientSchema]_vars

\* calculateActivityDuration on start, end and the clock.
DurationInputs ==
  [startDate : {0, 1, SecondsPerDay, 30 * SecondsPerDay},
   endDate : {NoTime, 0, 1, SecondsPerDay - 1, SecondsPerDay,
              SecondsPerDay + 1, 29 * SecondsPerDay + 1, 30 * SecondsPerDay,
              30 * SecondsPerDay + 1, 31 * SecondsPerDay,
              60 * SecondsPerDay, 60 * SecondsPerDay + 1},
   clock : {0, 30 * SecondsPerDay, 61 * SecondsPerDay}]

InitDuration == \E i \in DurationInputs : Start(i)

NextDuration == ComputeDuration

SpecDuration == InitDuration /\ [][NextDuration]_vars

\* calculateActivityRevenue on an activity's rate and dates.
RateInputs ==
  {NoNumber, NaN, Num(0), Num(1500), Text(<<>>), Text(<<"0">>),
   Text(<<"1", "5", "0", "0">>), Text(<<"a", "b", "c">>),
   Text(<<"1", "2", "a">>)}

RevenueInputs ==
  [ratePerMonth : RateInputs,
   startDate : {0, SecondsPerDay},
   endDate : {NoTime, 0, SecondsPerDay, 30 * SecondsPerDay,
              31 * SecondsPerDay},
   clock : {SecondsPerDay, 61 * SecondsPerDay}]

InitRevenue == \E i \in RevenueInputs : Start(i)

NextRevenue == ComputeRevenue

SpecRevenue == InitRevenue /\ [][NextRevenue]_vars

\* isActivityActive on an activity's dates and today's date.
ActiveInputs ==
  [startDate : 0..MaxDay, endDate : {NoTime} \cup 0..MaxDay, clock : 0..MaxDay]

NextActive == CheckActive \/ helpers_CheckActive

SpecActive == (\E i \in ActiveInputs : Start(i)) /\ [][NextActive]_vars

\* Calls of the clock-reading functions at different times.
NextClock == DayPasses \/ CallIsActive \/ CallDuration

SpecClock == (\E i \in ActiveInputs : Start(i)) /\ [][NextClock]_vars

\* sortActivitiesByDate on lists of activities with distinct ids.
ActivityIds == 1..MaxActivities
ActivityLists ==
  {l \in UNION {[1..n -> [id : ActivityIds, startDate : 0..1]] :
                  n \in 0..MaxActivities} :
     \A i, j \in DOMAIN l : i # j => l[i].id # l[j].id}

SpecSort == (\E l \in ActivityLists : Start(l)) /\ [][SortActivities]_vars

\* calculateOccupancy on lists of sites with and without a current client.
SiteLists ==
  UNION {[1..n -> [currentClientId : {"c1", undefined}]] : n \in 0..MaxSites}

SpecOccupancy == (\E l \in SiteLists : Start(l)) /\ [][ComputeOccupancy]_vars

\* The filter store under the calls of the pages.
NextFilters ==
  \/ \E entry \in FilterEntries :
       \/ \E patch \in PartialFilters[entry] : setFilters(entry, patch)
       \/ \E v \in FilterValues[entry].searchTerm : setSearch(entry, v)
       \/ \E sortBy \in FilterValues[entry].sortBy,
             sortDirection \in FilterValues[entry].sortDirection :
            setSort(entry, sortBy, sortDirection)
       \/ resetFilters(entry)
  \/ \E dateFrom \in FilterValues.activitiesFilters.dateFrom,
        dateTo \in FilterValues.activitiesFilters.dateTo :
       setActivitiesDateRange(dateFrom, dateTo)
  \/ resetAllFilters

SpecFilters == Init /\ [][NextFilters]_vars

\* The payloads of the backend and the shapes of the body that carries one.
Row(id) == Obj([id |-> id])
Nested(id) ==
  Obj([activity |-> Row(id), site |-> Row("s1"), client |-> Row("c1")])

IsList(op) ==
  op \in {"getSites", "searchSites", "getSitesWithStatus", "getClients",
          "getActivities"}

Items(op) ==
  CASE op \in {"getActivities", "getActivityById"} ->
         {Nested("a1"), Nested("a2")}
    [] op \in {"getClients", "getClientById"} -> {Row("c1"), Row("c2")}
    [] OTHER -> {Row("s1"), Row("s2")}

Payloads(op) ==
  IF IsList(op)
  THEN {Arr(l) : l \in UNION {[1..n -> Items(op)] : n \in 0..2}}
  ELSE Items(op)

Shapes == {"bare", "named", "wrapped", "wrapped named"}

Named(op, payload) ==
  IF IsList(op)
  THEN Obj((EnvelopeField[op] :> payload) @@ [count |-> Len(payload.items)])
  ELSE Obj(EnvelopeField[op] :> payload)

Body(op, payload, shape) ==
  CASE shape = "bare" -> payload
    [] shape = "named" -> Named(op, payload)
    [] shape = "wrapped" -> Obj([success |-> TRUE, data |-> payload])
    [] shape = "wrapped named" ->
         Obj([success |-> TRUE, data |-> Named(op, payload)])

ResponseInputs ==
  {[op |-> op, payload |-> payload, shape |-> shape,
    body |-> Body(op, payload, shape)] :
     <<op, payload, shape>> \in
       UNION {{op} \X Payloads(op) \X Shapes : op \in Operations}}

SpecResponse == (\E i \in ResponseInputs : Start(i)) /\ [][Respond]_vars

\* Writes of activities while the pages that show them are cached.
ActivityKeys == {ActivitiesListKey, SITES_WITH_STATUS, DashboardKey}

NextActivity ==
  \/ \E c \in Callers, k \in ActivityKeys : Mount(c, k)
  \/ \E c \in Callers : Unmount(c)
  \/ \E k \in ActivityKeys : LoaderResolve(k)
  \/ \E h \in ActivityHooks, data \in Patches : Mutate(1, h, data)
  \/ OnMutate(1)
  \/ RemoteSuccess(1)
  \/ RemoteFail(1, 500)

SpecActivity == Init /\ [][NextActivity]_vars

\* An optimistic update of a site while its detail page is mounted, next to
\* the other site writes and the refetch triggers of the query defaults.
OptimisticHooks == {"updateSite", "createSite"}

NextOptimistic ==
  \/ \E c \in Callers : Mount(c, SITE("s1"))
  \/ LoaderResolve(SITE("s1"))
  \/ \E m \in Muts, h \in OptimisticHooks, data \in Patches : Mutate(m, h, data)
  \/ \E m \in Muts : OnMutate(m)
  \/ \E m \in Muts : RemoteSuccess(m)
  \/ \E m \in Muts : RemoteFail(m, 500)
  \/ WindowFocus
  \/ Tick

SpecOptimistic == Init /\ [][NextOptimistic]_vars

\* Renders of a protected route: the stored token, the clock, the user of
\* the auth store (null before a login in this document) and the role the
\* route asks for.
AccessTokens ==
  {[kind |-> k, exp |-> 0] :
     k \in {"null", "empty", "one part", "not json", "no exp"}}
    \cup {[kind |-> "jwt", exp |-> e] : e \in 1..MaxExp}
ClockValues == {s * 1000 + d : s \in 0..MaxExp, d \in {0, 1}}
UserRoles == {"user", "manager", "admin"}
StoreUsers == {NoUser} \cup {[role |-> r] : r \in UserRoles \cup {"guest"}}
RequiredRoles == {Undefined} \cup {[kind |-> "role", role |-> r] : r \in UserRoles}

RouteInputs ==
  [token : AccessTokens, clock : ClockValues, user : StoreUsers,
   requiredRole : RequiredRoles]

SpecRoute == (\E i \in RouteInputs : Start(i)) /\ [][RenderRoute]_vars

TypeOK ==
  /\ now \in 0..MaxTime
  /\ \A k \in Keys : cache[k].fetchStatus \in {"idle", "fetching"}
  /\ \A k \in Keys : loaderCalls[k] \in 0..MaxLoaderCalls

(***************************************************************************)
(* Properties of optimistic mutations (specification Spec).                *)
(***************************************************************************)
IsUpdate(m) == mut[m].hook \in UpdateHooks
FailedWrite(m) == IsUpdate(m) /\ mut[m].phase = "error" /\ ~mut[m].remoteOk
SettlesFailed(m) ==
  /\ IsUpdate(m)
  /\ mut[m].phase = "pending"
  /\ mut'[m].phase = "error"
  /\ ~mut'[m].remoteOk

\* C1, as stated: when an update mutation whose remote call failed settles,
\* the cached value at its key equals the value cached there immediately
\* before mutate was called.
C1_RestoresValueBeforeMutate ==
  [][\A m \in Muts :
       SettlesFailed(m) => cache'[MutKey(m)].data = mut[m].before]_vars

\* C1, amended: when an update mutation whose remote call failed settles and
\* its onMutate took a snapshot of a cached value, the cached value at its key
\* equals that snapshot.
C1_RestoresSnapshot ==
  [][\A m \in Muts :
       (SettlesFailed(m) /\ mut[m].context # NoData)
         => cache'[MutKey(m)].data = mut[m].context]_vars

C1_Witness ==
  \E m \in Muts :
    /\ FailedWrite(m)
    /\ mut[m].optimistic # NoData
    /\ mut[m].context # mut[m].optimistic
    /\ cache[MutKey(m)].data = mut[m].context

\* C2: once the error of a failed write has been surfaced, the cache does not
\* hold the optimistic value of that write.
C2_NoGhostAfterError ==
  \A m \in Muts :
    (FailedWrite(m) /\ mut[m].optimistic # NoData)
      => cache[MutKey(m)].data # mut[m].optimistic

\* C4, as stated: from the mutate call on, the optimistic value has been
\* written to the cache at the key.
C4_WrittenWhenMutateReturns ==
  \A m \in Muts :
    (IsUpdate(m) /\ mut[m].phase # "idle") => mut[m].optimistic # NoData

\* C4, amended: when a value is cached at the key, the first attempt of the
\* remote call of an update mutation is made in the step that writes the
\* optimistic value { ...previous, ...data, updatedAt } at the key, and from
\* the mutate call to that step the cache changes only by such writes.
C4_OptimisticBeforeRemote ==
  [][/\ \A m \in Muts :
          (/\ mut[m].attempts = 0
           /\ mut'[m].attempts = 1
           /\ mut'[m].hook \in UpdateHooks
           /\ cache[DetailKey(mut'[m].id)].data # NoData)
            => cache'[DetailKey(mut'[m].id)].data =
                 Doc(Merge(cache[DetailKey(mut'[m].id)].data.ent,
                           mut'[m].data, stamp'))
     /\ (\E m \in Muts : mut[m].phase = "onMutate")
          => \/ cache' = cache
             \/ \E m \in Muts : /\ mut[m].phase = "onMutate"
                                /\ mut'[m].phase = "pending"]_vars

C4_Witness ==
  \E m \in Muts :
    /\ IsUpdate(m)
    /\ mut[m].phase = "pending"
    /\ mut[m].attempts = 1
    /\ mut[m].optimistic # NoData
    /\ cache[MutKey(m)].data = mut[m].optimistic

\* Keys of the lists an update of the record may have changed.
RelatedLists(h) ==
  CASE h = "updateSite" -> {SitesListKey, SITES_WITH_STATUS}
    [] h = "updateClient" -> {ClientsListKey, ClientSearchKey}
    [] OTHER -> {ActivitiesListKey, SITES_WITH_STATUS}

\* C5: when the remote call of an update mutation succeeds, the cached value
\* at the mutated key is the response of the server and every related list
\* that is cached is invalidated or being reloaded.
C5_SuccessCommitsResponse ==
  [][\A m \in Muts :
       (IsUpdate(m) /\ ~mut[m].remoteOk /\ mut'[m].remoteOk)
         => /\ cache'[MutKey(m)].data = Doc(server'[mut[m].id])
            /\ \A k \in RelatedLists(mut[m].hook) :
                 cache[k].exists
                   => \/ cache'[k].isInvalidated
                      \/ cache'[k].fetchStatus = "fetching"]_vars

\* C6, as stated: the remote call of a mutation is attempted at most once.
C6_AttemptedAtMostOnce == \A m \in Muts : mut[m].attempts <= 1

\* C6, amended: a failed write is retried once; the remote call of a mutation
\* is attempted at most twice per mutate, and its error is surfaced after the
\* second failed attempt.
C6_AttemptedAtMostTwice ==
  \A m \in Muts :
    /\ mut[m].attempts <= 2
    /\ (mut[m].phase = "error" /\ ~mut[m].remoteOk) => mut[m].attempts = 2

C6_Witness ==
  \E m \in Muts :
    mut[m].phase = "error" /\ ~mut[m].remoteOk /\ mut[m].attempts = 2

(***************************************************************************)
(* Properties of reads (specifications SpecRead, SpecInvalidate,           *)
(* SpecFetch).                                                             *)
(***************************************************************************)
MountStep(c, k) == sub[c] = NoKey /\ sub'[c] = k
Resolves(k) ==
  /\ cache[k].fetchStatus = "fetching"
  /\ cache'[k].fetchStatus = "idle"
  /\ cache'[k].status = "success"

\* C3: fetch calls for a key whose request is in flight invoke the loader no
\* further time (one invocation, repeated only by the retries of a failed
\* attempt), and every caller that waits receives the result of that request.
C3_ConcurrentFetchesCoalesce ==
  [][\A k \in Keys :
       /\ \A c \in Callers :
            (MountStep(c, k) /\ cache[k].fetchStatus = "fetching")
              => loaderCalls'[k] = loaderCalls[k]
       /\ \A c \in Callers :
            (/\ MountStep(c, k)
             /\ cache[k].fetchStatus = "idle"
             /\ cache[k].data = NoData)
              => loaderCalls'[k] = 1 /\ c \in cache'[k].waiters
       /\ cache'[k].fetchStatus = "fetching"
            => loaderCalls'[k] = 1 + cache'[k].failureCount
       /\ Resolves(k)
            => \A c \in cache[k].waiters : delivered'[c] = cache'[k].data]_vars

C3_Witness ==
  \E k \in Keys :
    /\ Cardinality(Observers(k)) >= 2
    /\ cache[k].data # NoData
    /\ \A c \in Observers(k) : delivered[c] = cache[k].data

\* C7: a failed read is retried at most 2 times (at most 3 invocations of the
\* loader) and not at all after a 401 or 404 response.
C7_ReadRetriesBounded ==
  \A k \in Keys :
    /\ loaderCalls[k] <= 3
    /\ cache[k].failureCount <= 3
    /\ cache[k].failureReason \in {401, 404} => cache[k].fetchStatus = "idle"

C7_Witness ==
  \E k \in Keys :
    /\ cache[k].status = "error"
    /\ cache[k].fetchStatus = "idle"
    /\ cache[k].failureCount = 3
    /\ cache[k].failureReason = 500

\* C9: invalidation marks every cached entry under the prefix as stale, and
\* the next fetch of an entry so marked invokes the loader.
C9_InvalidatedEntryReloads ==
  [][/\ \A k1 \in Keys, k2 \in Keys :
          (/\ cache[k1].exists /\ cache[k2].exists
           /\ k1[1] = k2[1]
           /\ ~cache[k1].isInvalidated
           /\ cache'[k1].isInvalidated)
            => cache'[k2].isInvalidated
     /\ \A c \in Callers, k \in Keys :
          (/\ MountStep(c, k)
           /\ cache[k].isInvalidated
           /\ cache[k].fetchStatus = "idle")
            => loaderCalls'[k] = 1]_vars

\* C10: a fetch returns the cached value without a load exactly when the
\* entry is younger than the staleness window of its key, which is 3 to 5
\* minutes; otherwise the loader runs and its result is stored under the key
\* and returned.
C10_FetchReloadsWhenStale ==
  [][\A k \in Keys :
       /\ \A c \in Callers :
            MountStep(c, k)
              => /\ StaleTime(k) >= 3 /\ StaleTime(k) <= 5
                 /\ (c \notin cache'[k].waiters)
                      <=> (/\ cache[k].data # NoData
                           /\ now - cache[k].dataUpdatedAt < StaleTime(k))
       /\ Resolves(k)
            => /\ cache'[k].data = Load(server, k)
               /\ \A c \in cache[k].waiters : delivered'[c] = cache'[k].data
     ]_vars

(***************************************************************************)
(* Properties of the session (specification SpecSession).                  *)
(***************************************************************************)
\* C8: once the user is at the login entry point, after a logout or after the
\* redirect of a 401 response, the cache holds no data.
C8_CacheClearedAtLogout ==
  (path = "login" /\ ~reloadPending)
    => \A k \in Keys : cache[k].data = NoData

(***************************************************************************)
(* The state of a cache entry (specification SpecEntry).                   *)
(***************************************************************************)
Fresh(e, k, t) == e.data # NoData /\ ~IsStale(e, k, t)

EntryState(e, k, t) ==
  CASE e.fetchStatus = "fetching" -> "loading"
    [] e.fetchStatus # "fetching" /\ e.data = NoData -> "absent"
    [] e.fetchStatus # "fetching" /\ e.data # NoData /\ IsStale(e, k, t)
         -> "stale"
    [] OTHER -> "fresh"

Removed(k) == cache[k].exists /\ ~cache'[k].exists

\* A handler of a mutation on key k (onMutate, onSuccess, onError) runs.
HandlerRuns(k) ==
  \E m \in Muts :
    /\ mut[m].phase \in {"onMutate", "pending"}
    /\ mut'[m].phase # mut[m].phase
    /\ MutKey(m) = k

AttemptFails(m) ==
  /\ mut[m].phase = "pending"
  /\ mut'[m].failureCount = mut[m].failureCount + 1

\* C12: when the delete of a client fails with the dependency error (409)
\* of a client referenced by an activity, no cache entry is removed or
\* changed, the client stays in the cached list, and the error is the one
\* surfaced to the caller.
C12_FailedDeleteKeepsCache ==
  [][\A m \in Muts :
       (/\ mut[m].hook \in DeleteHooks
        /\ AttemptFails(m))
         => /\ cache' = cache
            /\ sub' = sub
            /\ mut'[m].phase = "error" => mut'[m].lastError \in WriteErrors
            /\ mut'[m].phase \in {"pending", "error"}]_vars

C12_Witness ==
  \E m \in Muts :
    /\ mut[m].hook = "deleteClient"
    /\ mut[m].phase = "error"
    /\ mut[m].lastError = 409
    /\ Referenced(server, mut[m].id)
    /\ cache[ClientsListKey].data.kind = "list"
    /\ server[mut[m].id] \in cache[ClientsListKey].data.items

\* C13: once the site has been created through the application, a mounted
\* sites list query eventually holds a result that includes it (or the
\* error of its reload), with no reload of the document.
C13_CreatedSiteListed ==
  (/\ \E m \in Muts : mut[m].hook = "createSite" /\ mut[m].phase = "success"
   /\ IsActive(SitesListKey))
    ~> (\/ server[TargetId("createSite")] \in cache[SitesListKey].data.items
        \/ cache[SitesListKey].status = "error")

\* A 401 response to the request of key k is intercepted in this step.
Unauthorized(k) ==
  /\ cache[k].fetchStatus = "fetching"
  /\ cache'[k].failureCount = cache[k].failureCount + 1
  /\ cache'[k].failureReason = 401

\* C14: a 401 response removes the stored tokens and the stored user
\* profile, and sends the browser to the login entry point.
C14_UnauthorizedTearsDown ==
  [][\A k \in Keys :
       Unauthorized(k)
         => /\ ~tokens'
            /\ ~storedUser'
            /\ ~authState'
            /\ path' = "login" \/ reloadPending']_vars

(***************************************************************************)
(* Mutations on different keys (specification SpecPair).                   *)
(***************************************************************************)
\* A handler of mutation m (onMutate, onSuccess or onError) runs.
HandlerStep(m) ==
  /\ mut[m].phase \in {"onMutate", "pending"}
  /\ mut'[m].phase # mut[m].phase

IssuePaths == {i.path : i \in issues}

\* C16: a submitted activity has previousClientId exactly when its action
\* is "shift"; a shift without previousClientId is rejected with an issue at
\* previousClientId, and an action "new" gets no issue there.
C16_PreviousClientIffShift ==
  /\ stage = "submitted"
       => (Truthy(output.previousClientId) <=> output.action = "shift")
  /\ (stage # "editing" /\ input.action = "shift"
         /\ ~Truthy(input.previousClientId))
       => stage = "invalid" /\ <<"previousClientId">> \in IssuePaths
  /\ (stage # "editing" /\ input.action = "new")
       => <<"previousClientId">> \notin IssuePaths

Accepted == stage \in {"valid", "submitted"}

\* C17: an activity with a start date and an end date is accepted by
\* validation only if the end date is strictly after the start date.
C17_EndAfterStart ==
  (Accepted /\ Truthy(input.fromDate) /\ Truthy(input.toDate))
    => /\ ValidDate(input.fromDate)
       /\ ValidDate(input.toDate)
       /\ DayNumber[input.toDate] > DayNumber[input.fromDate]

C17_Witness ==
  /\ Accepted
  /\ Truthy(input.fromDate)
  /\ Truthy(input.toDate)
  /\ issues = {}

HasGst == input.gstNumber # NoString /\ input.gstNumber # <<>>
GstAccepted == stage = "valid" \/ <<"gstNumber">> \notin IssuePaths

\* The format as the claim words it: 2 digits, 5 letters, 4 digits, 1 letter,
\* 1 alphanumeric, "Z", 1 alphanumeric.
ClaimedGstFormat(val) ==
  /\ Len(val) = 15
  /\ \A i \in {1, 2} \cup (8..11) : val[i] \in Digits
  /\ \A i \in (3..7) \cup {12} : val[i] \in Upper
  /\ \A i \in {13, 15} : val[i] \in Digits \cup Upper
  /\ val[14] = "Z"

\* The format with the thirteenth character restricted to 1-9 and A-Z.
RegulatoryGstFormat(val) ==
  /\ ClaimedGstFormat(val)
  /\ val[13] # "0"

\* C18, as stated: a present GST value is accepted exactly when it has 15
\* characters in the format 2 digits, 5 letters, 4 digits, 1 letter, 1
\* alphanumeric, "Z", 1 alphanumeric.
C18_GstAlphanumeric ==
  (stage # "editing" /\ HasGst)
    => (GstAccepted <=> ClaimedGstFormat(input.gstNumber))

\* C18, amended: a present (non-empty) GST value is accepted exactly when
\* it has 15 characters: 2 digits, 5 upper-case letters, 4 digits, 1 upper-case
\* letter, 1 character of 1-9 or A-Z, "Z", 1 digit or upper-case letter; the
\* example passes, and its first 14 characters fail with a single issue at
\* gstNumber.
C18_GstRegulatory ==
  /\ (stage # "editing" /\ HasGst)
       => (GstAccepted <=> RegulatoryGstFormat(input.gstNumber))
  /\ (stage # "editing" /\ input.gstNumber = ExampleGst) => GstAccepted
  /\ (stage # "editing" /\ input.gstNumber = SubSeq(ExampleGst, 1, 14))
       => /\ stage = "invalid"
          /\ Cardinality({i \in issues : i.path = <<"gstNumber">>}) = 1

C18_Witness ==
  /\ stage = "invalid"
  /\ Len(input.gstNumber) = 15
  /\ input.gstNumber[13] = "0"
  /\ ClaimedGstFormat(input.gstNumber)
  /\ IssuePaths = {<<"gstNumber">>}

ActivityFields ==
  {"date", "clientId", "siteId", "previousClientId", "action",
   "dateOfPurchase", "fromDate", "toDate", "billNo", "billType",
   "ratePerMonth", "remarks"}

FieldScoped ==
  \A i \in issues : Len(i.path) = 1 /\ i.path[1] \in ActivityFields

\* An issue about the type of a value: a missing required field, a value
\* outside an enum, a rate that is not a number.
HasTypeIssue ==
  \E i \in issues :
    i.message \in {"Required", "Expected number",
                   "Please select an action type", "Invalid enum value"}

\* C19, as stated: every issue names exactly one field, and a record carries
\* the issue of every rule it violates.
C19_AllRulesReported ==
  stage # "editing"
    => /\ FieldScoped
       /\ FieldIssues(input) \subseteq issues
       /\ RefinementIssues(input) \subseteq issues

\* C19, amended: every issue names exactly one field; a record carries the
\* issues of all the field rules it violates, and those of all the
\* cross-field rules it violates (previousClientId, toDate, fromDate) when no
\* field has a value of the wrong type.
C19_FieldScopedIssues ==
  stage # "editing"
    => /\ FieldScoped
       /\ FieldIssues(input) \subseteq issues
       /\ ~HasTypeIssue => RefinementIssues(input) \subseteq issues
       /\ HasTypeIssue => issues = FieldIssues(input)

C19_Witness ==
  /\ stage = "invalid"
  /\ ~HasTypeIssue
  /\ {<<"date">>, <<"previousClientId">>, <<"toDate">>, <<"fromDate">>,
      <<"ratePerMonth">>} \subseteq IssuePaths

(***************************************************************************)
(* Properties of the derived values (specification SpecDuration).          *)
(***************************************************************************)
EndOrNow == IF input.endDate # NoTime THEN input.endDate ELSE input.clock
DurationSpan ==
  IF EndOrNow >= input.startDate THEN EndOrNow - input.startDate
  ELSE input.startDate - EndOrNow

\* C20: the duration is the number of months m with 30 (m - 1) < d <= 30 m,
\* where d is the number of days with (d - 1) days < span <= d days and the
\* span is |end - start|, end being now when absent; it is 0 exactly when
\* start equals end, at least 1 for a non-zero span, 1 for 30 days.
C20_DurationRoundsUp ==
  stage = "computed"
    => /\ \E d \in 0..62 :
            /\ (d - 1) * SecondsPerDay < DurationSpan
            /\ DurationSpan <= d * SecondsPerDay
            /\ 30 * (output - 1) < d
            /\ d <= 30 * output
       /\ output = 0 <=> DurationSpan = 0
       /\ DurationSpan > 0 => output >= 1
       /\ DurationSpan = 30 * SecondsPerDay => output = 1

C20_Witness ==
  /\ stage = "computed"
  /\ input.endDate = NoTime
  /\ DurationSpan = 31 * SecondsPerDay
  /\ output = 2

\* The number a rate denotes, when it is one: a number other than NaN, or a
\* string that is a decimal numeral.
NumericRate(v) ==
  \/ v.type = "number"
  \/ v.type = "string" /\ v.text # <<>> /\ \A i \in DOMAIN v.text :
                                              v.text[i] \in Digits
RateValue(v) == IF v.type = "string" THEN NumeralValue(v.text) ELSE v.n

\* C21: the revenue of an activity is its rate times its duration in months,
\* and 0 when the rate is absent or not a number.
C21_RevenueIsRateTimesDuration ==
  stage = "computed"
    => output =
         IF NumericRate(input.ratePerMonth)
         THEN Num(RateValue(input.ratePerMonth)
                    * calculateActivityDuration(input.startDate,
                                                input.endDate, input.clock))
         ELSE Num(0)

\* For a rate that is a number the revenue is the product.
NumericRevenueIsProduct ==
  stage = "computed" /\ NumericRate(input.ratePerMonth)
    => output = Num(RateValue(input.ratePerMonth)
                      * calculateActivityDuration(input.startDate,
                                                  input.endDate, input.clock))

\* C22: an activity is active exactly when today is on or after its start
\* and its end is absent or on or after today.
C22_ActiveWithinRange ==
  stage = "computed"
    => output = (/\ input.clock >= input.startDate
                 /\ (input.endDate = NoTime \/ input.clock <= input.endDate))

\* C23: the derived-value functions are deterministic: two calls of one
\* function on the same activity return the same value, whatever the time of
\* the call (the arguments of the calls carry no time).
C23_SameInputsSameOutput ==
  \A i, j \in DOMAIN output :
    output[i].fn = output[j].fn => output[i].value = output[j].value

\* C24: the sorted list is in descending order of start date with equal
\* dates in order of identifier, so it does not depend on the input order.
C24_SortedByDateThenId ==
  stage = "computed"
    => \A i, j \in DOMAIN output :
         i < j => \/ output[i].startDate > output[j].startDate
                  \/ /\ output[i].startDate = output[j].startDate
                     /\ output[i].id < output[j].id

\* The sorted list is a rearrangement of the input in descending order of
\* start date, equal dates in their input order.
SortedByDateStable ==
  stage = "computed"
    => /\ Len(output) = Len(input)
       /\ \A i \in DOMAIN input : \E j \in DOMAIN output : output[j] = input[i]
       /\ \A i, j \in DOMAIN output :
            i < j => output[i].startDate >= output[j].startDate
       /\ \A i, j \in DOMAIN input :
            i < j /\ input[i].startDate = input[j].startDate
              => \E a, b \in DOMAIN output :
                   a < b /\ output[a] = input[i] /\ output[b] = input[j]

\* The number 100 * activeCount / len, rounded once.
Occupied == {i \in DOMAIN input : input[i].currentClientId = "c1"}
ExactOccupancy == FloatDiv(100 * Cardinality(Occupied), Len(input))
Hundred == FloatDiv(100, 1)

\* x <= y of two numbers.
FloatLeq(x, y) ==
  \/ x = Zero
  \/ y # Zero /\ x.exp < y.exp
  \/ /\ y # Zero /\ x.exp = y.exp
     /\ \/ x.hi < y.hi
        \/ x.hi = y.hi /\ x.mid < y.mid
        \/ x.hi = y.hi /\ x.mid = y.mid /\ x.lo <= y.lo

\* C25: the occupancy is exactly 100 * activeCount / len of a non-empty
\* list and 0 of the empty list, and lies in [0, 100].
C25_OccupancyExact ==
  stage = "computed"
    => /\ output = IF Len(input) = 0 THEN Zero ELSE ExactOccupancy
       /\ FloatLeq(output, Hundred)

\* C25 as amended: the occupancy is 0 of the empty list, lies in [0, 100]
\* and is 100 * activeCount / len or one of the two numbers next to it.
C25_OccupancyWithinRounding ==
  stage = "computed"
    => /\ Len(input) = 0 => output = Zero
       /\ FloatLeq(output, Hundred)
       /\ Len(input) > 0
            => \/ output = ExactOccupancy
               \/ /\ output # Zero
                  /\ \/ Above(output) = ExactOccupancy
                     \/ Above(ExactOccupancy) = output

C25_Witness ==
  /\ stage = "computed"
  /\ Len(input) = 3
  /\ Cardinality(Occupied) = 1
  /\ Above(output) = ExactOccupancy

\* The fields of `entry' other than those in `supplied' keep their values.
Keeps(entry, supplied) ==
  \A f \in FilterFields(entry) \ supplied :
    filters'[entry][f] = filters[entry][f]

\* The arguments of setActivitiesDateRange that the caller gave.
GivenDates(dateFrom, dateTo) ==
  {f \in {"dateFrom", "dateTo"} :
     [dateFrom |-> dateFrom, dateTo |-> dateTo][f] # undefined}

\* C26: every update operation of the filter store keeps the value of each
\* field of the entry that the caller did not supply.
C26_PartialUpdateMerges ==
  [][/\ \A entry \in FilterEntries :
         /\ \A patch \in PartialFilters[entry] :
              setFilters(entry, patch) => Keeps(entry, DOMAIN patch)
         /\ \A v \in FilterValues[entry].searchTerm :
              setSearch(entry, v) => Keeps(entry, {"searchTerm"})
         /\ \A sortBy \in FilterValues[entry].sortBy,
               sortDirection \in FilterValues[entry].sortDirection :
              setSort(entry, sortBy, sortDirection)
                => Keeps(entry, {"sortBy", "sortDirection"})
     /\ \A dateFrom \in FilterValues.activitiesFilters.dateFrom,
           dateTo \in FilterValues.activitiesFilters.dateTo :
          setActivitiesDateRange(dateFrom, dateTo)
            => Keeps("activitiesFilters", GivenDates(dateFrom, dateTo))]_vars

\* The payload as the caller is to see it: activities in their flat form.
Flat(item) ==
  Obj([id |-> item.fields.activity.fields.id,
       siteId |-> item.fields.site.fields.id,
       clientId |-> item.fields.client.fields.id])

Expected ==
  CASE input.op = "getActivities" ->
         Arr([i \in DOMAIN input.payload.items |->
                Flat(input.payload.items[i])])
    [] input.op = "getActivityById" -> Flat(input.payload)
    [] OTHER -> input.payload

\* C27: a list or get-by-id operation returns the payload, whatever the
\* shape of the body that carried it.
C27_SamePayloadAnyShape == stage = "computed" => output = Expected

\* C28: when the remote call of an activity create or update succeeds, the
\* cached activities list, sites-with-status list and dashboard data are
\* invalidated or being reloaded (a list of the activities of a site or of
\* a client has a key under that of the activities list).
C28_ActivityWriteInvalidates ==
  [][(/\ mut[1].hook \in ActivityHooks
      /\ ~mut[1].remoteOk
      /\ mut'[1].remoteOk)
       => \A k \in ActivityKeys :
            cache[k].exists
              => \/ cache'[k].isInvalidated
                 \/ cache'[k].fetchStatus = "fetching"]_vars

\* C29: while an update mutation is pending and the cache holds its
\* optimistic value, a step of the reads (a mount, a window focus, the
\* response of a fetch or refetch) leaves the value at the key unchanged.
HoldsOptimistic(m) ==
  /\ mut[m].hook \in UpdateHooks
  /\ mut[m].phase = "pending"
  /\ mut[m].optimistic # NoData
  /\ cache[MutKey(m)].data = mut[m].optimistic

C29_NoFetchOverwritesOptimistic ==
  [][\A m \in Muts :
       (HoldsOptimistic(m) /\ mut' = mut)
         => cache'[MutKey(m)].data = mut[m].optimistic]_vars

\* C30: the children of a protected route are rendered exactly when the
\* stored token is a JWT whose exp lies in the future and, if the route
\* names a role, the store has a user whose role is at or above it in
\* user < manager < admin; every other render is a redirect.
RoleOrder == <<"user", "manager", "admin">>
RoleRank(role) ==
  IF \E i \in 1..Len(RoleOrder) : RoleOrder[i] = role
  THEN CHOOSE i \in 1..Len(RoleOrder) : RoleOrder[i] = role
  ELSE 0
TokenFresh ==
  input.token.kind = "jwt" /\ input.clock < input.token.exp * 1000
RoleSuffices ==
  \/ input.requiredRole = Undefined
  \/ /\ input.user # NoUser
     /\ RoleRank(input.user.role) >= RoleRank(input.requiredRole.role)

C30_RenderedOnlyWhenPermitted ==
  stage = "computed"
    => IF TokenFresh /\ RoleSuffices THEN output = "children"
       ELSE output \in {"Navigate /login", "Navigate /dashboard"}

\* With the user of the store present, the route renders as C30 states.
RenderedOnlyWhenPermittedWithUser ==
  stage = "computed" /\ input.user # NoUser
    => IF TokenFresh /\ RoleSuffices THEN output = "children"
       ELSE output \in {"Navigate /login", "Navigate /dashboard"}

====
